---- MODULE Spec2Model ----
(***************************************************************************)
(* A model of the gitlab-cli profile resolver (config.ts: normalize,       *)
(* parseCsv, envKeyForProfile, resolveGitlabConfig, resolveGitlabProfiles),*)
(* of its base-URL normalization (also trimBaseUrl of commands/profile.ts) *)
(* and of the paged selector (selectFromPagedList of prompt-helpers.ts).   *)
(* Each component has its own specification over its own variables; the    *)
(* variables of the other components stay at NotRunning.                   *)
(*                                                                         *)
(* Strings are sequences of one-character strings, so that trimming,       *)
(* splitting on commas, stripping trailing slashes and upper-casing are    *)
(* computed character by character.  The JavaScript value `undefined` is   *)
(* the one-element sequence Undefined, whose element is not a character.   *)
(***************************************************************************)
EXTENDS Integers, Sequences, FiniteSets, TLC

VARIABLES options, fileConfig, env, requireProject, result

\* base-URL normalization: the function applied, its argument, and the
\* values returned by applying it once and a second time to its own output
VARIABLES normalizer, baseUrlInput, baseUrlOnce, baseUrlTwice

\* paged selector: the arguments of selectFromPagedList (items, pageSize,
\* onToggleFavorite, and formatFails, the indexes on which formatItem throws)
VARIABLES items, pageSize, onToggleFavorite, formatFails

\* the terminal: whether the streams are a TTY, the raw mode of the input
\* stream now and before the call, whether keypressHandler is attached
VARIABLES isTTY, isRaw, rawBefore, listening

\* the locals of selectFromPagedList
VARIABLES wasRaw, selectionIndex, pageIndex, lastRenderLines, cleaned

\* where control is, the promise returned to the caller, the number of
\* calls of resolve, and the favorite-toggle callbacks still running
VARIABLES control, promise, resolveCalls, pendingToggles

\* what the last step did (its event, frames written, warnings logged, the
\* item handed to onToggleFavorite), and the number of Down presses while
\* no other key has been pressed since the start
VARIABLES lastEvent, downPresses

\* the row of the terminal where the last frame begins, or where cleanup()
\* cleared from, counted from the row where the first frame began
VARIABLES frameTop

resolverVars == <<options, fileConfig, env, requireProject, result>>

selectorArgs == <<items, pageSize, onToggleFavorite, formatFails, isTTY, rawBefore>>

selectorVars ==
    <<selectorArgs, isRaw, listening, wasRaw, selectionIndex, pageIndex,
      lastRenderLines, cleaned, control, promise, resolveCalls, pendingToggles,
      lastEvent, downPresses, frameTop>>

baseUrlVars == <<normalizer, baseUrlInput, baseUrlOnce, baseUrlTwice>>

\* the value of a variable whose component is not the one running
NotRunning == "not running"

ResolverNotRunning ==
    /\ options = NotRunning
    /\ fileConfig = NotRunning
    /\ env = NotRunning
    /\ requireProject = NotRunning
    /\ result = NotRunning

BaseUrlNotRunning ==
    /\ normalizer = NotRunning
    /\ baseUrlInput = NotRunning
    /\ baseUrlOnce = NotRunning
    /\ baseUrlTwice = NotRunning

SelectorNotRunning ==
    /\ items = NotRunning
    /\ pageSize = NotRunning
    /\ onToggleFavorite = NotRunning
    /\ formatFails = NotRunning
    /\ isTTY = NotRunning
    /\ isRaw = NotRunning
    /\ rawBefore = NotRunning
    /\ listening = NotRunning
    /\ wasRaw = NotRunning
    /\ selectionIndex = NotRunning
    /\ pageIndex = NotRunning
    /\ lastRenderLines = NotRunning
    /\ frameTop = NotRunning
    /\ cleaned = NotRunning
    /\ control = NotRunning
    /\ promise = NotRunning
    /\ resolveCalls = NotRunning
    /\ pendingToggles = NotRunning
    /\ lastEvent = NotRunning
    /\ downPresses = NotRunning

\* launchInteractiveHome: the prompt the shell waits at, the list the project
\* selector shows while it is open, the project, action and merge request
\* chosen, the answers collected
VARIABLES shellAt, pool, selectedProject, action, candidates, mergeRequest,
          answers
\* the favorites file, favoriteRecords and favoriteSet, the discovered projects
VARIABLES favoritesFile, favoriteRecords, favoriteSet, projects
\* observation: what the last step did
VARIABLES shellEvent

shellVars ==
    <<shellAt, pool, selectedProject, action, candidates, mergeRequest,
      answers, favoritesFile, favoriteRecords, favoriteSet, projects,
      shellEvent>>

ShellNotRunning ==
    /\ shellAt = NotRunning
    /\ pool = NotRunning
    /\ selectedProject = NotRunning
    /\ action = NotRunning
    /\ candidates = NotRunning
    /\ mergeRequest = NotRunning
    /\ answers = NotRunning
    /\ favoritesFile = NotRunning
    /\ favoriteRecords = NotRunning
    /\ favoriteSet = NotRunning
    /\ projects = NotRunning
    /\ shellEvent = NotRunning

\* toggleFavorite called again and again on one choice: what it reads and
\* writes, the choice, and for the last two calls whether the save returned
\* and what the favorites were before
VARIABLES favorites, toggled, lastToggles

togglesVars ==
    <<favorites, toggled, lastToggles>>

TogglesNotRunning ==
    /\ favorites = NotRunning
    /\ toggled = NotRunning
    /\ lastToggles = NotRunning

\* collectRecentProjects: the profiles' clients, what each Projects.all call
\* came to, the choices pushed, the profiles warned about, the value returned
VARIABLES sdks, listings, recentChoices, warned, collected

discoveryVars ==
    <<sdks, listings, recentChoices, warned, collected>>

DiscoveryNotRunning ==
    /\ sdks = NotRunning
    /\ listings = NotRunning
    /\ recentChoices = NotRunning
    /\ warned = NotRunning
    /\ collected = NotRunning

\* the commands comment, merge, list and review-assigned: the command and
\* its options, the profiles resolved, the place in its loops, whether
\* GitLab has been called, how it ended
VARIABLES command, cliOptions, cmdSdks, cmdAt, profileAt, itemAt, assigned,
          networkUsed, cmdStatus, failure
\* review-assigned's flags; list --json's pending calls and what it printed
VARIABLES hadFailures, hadFailuresOverall, fetches, payload
\* observation: whether a GitLab call or an item has failed, the last step
VARIABLES anyFailed, cmdEvent

commandsVars ==
    <<command, cliOptions, cmdSdks, cmdAt, profileAt, itemAt, assigned,
      networkUsed, cmdStatus, failure, hadFailures, hadFailuresOverall,
      fetches, payload, anyFailed, cmdEvent>>

CommandsNotRunning ==
    /\ command = NotRunning
    /\ cliOptions = NotRunning
    /\ cmdSdks = NotRunning
    /\ cmdAt = NotRunning
    /\ profileAt = NotRunning
    /\ itemAt = NotRunning
    /\ assigned = NotRunning
    /\ networkUsed = NotRunning
    /\ cmdStatus = NotRunning
    /\ failure = NotRunning
    /\ hadFailures = NotRunning
    /\ hadFailuresOverall = NotRunning
    /\ fetches = NotRunning
    /\ payload = NotRunning
    /\ anyFailed = NotRunning
    /\ cmdEvent = NotRunning

----------------------------------------------------------------------------
(* The global config file ~/.config/gitlab-cli/config.json as the profile
   commands and the bootstrap read and write it *)

\* the file, whether stdin is a TTY, the value of CI, what the last step did
VARIABLES globalConfig, stdinTTY, envCI, cfgEvent

configVars ==
    <<globalConfig, stdinTTY, envCI, cfgEvent>>

ConfigNotRunning ==
    /\ globalConfig = NotRunning
    /\ stdinTTY = NotRunning
    /\ envCI = NotRunning
    /\ cfgEvent = NotRunning

\* runPromptWithEsc: the input stream (isTTY, isRaw, its keypress listeners),
\* the AbortController of the running call, the call itself (its position,
\* wasRaw, the stream as it was at the call, the calls made so far) and the
\* keys pressed so far
VARIABLES stdin, controller, promptRun, keypresses

promptVars ==
    <<stdin, controller, promptRun, keypresses>>

PromptNotRunning ==
    /\ stdin = NotRunning
    /\ controller = NotRunning
    /\ promptRun = NotRunning
    /\ keypresses = NotRunning

\* toggleFavorite pressed again before a save has ended: favoriteRecords and
\* favoriteSet in memory, the favorites file, the projects of the list with
\* their flags, the saves under way (in the order they began, each with the
\* isFavorite its toggle read and the records it writes), and how the saves
\* that ended came out
VARIABLES heldRecords, heldSet, writtenFile, listedProjects, savesPending, savesEnded

overlapVars ==
    <<heldRecords, heldSet, writtenFile, listedProjects, savesPending, savesEnded>>

OverlapNotRunning ==
    /\ heldRecords = NotRunning
    /\ heldSet = NotRunning
    /\ writtenFile = NotRunning
    /\ listedProjects = NotRunning
    /\ savesPending = NotRunning
    /\ savesEnded = NotRunning

\* the profile store functions on their own: the config object and the call
\* made last (the function, its name argument, the config before it)
VARIABLES profileStore, storeEvent

storeVars ==
    <<profileStore, storeEvent>>

StoreNotRunning ==
    /\ profileStore = NotRunning
    /\ storeEvent = NotRunning

\* the profile manager inside the interactive shell: the config file, the
\* active profile name (the shell's activeProfileName and the manager's
\* activeProfile, which the callback keeps equal), the prompt shown, and the
\* operation made last
VARIABLES configFile, activeProfileName, managerAt, managerEvent

managerVars ==
    <<configFile, activeProfileName, managerAt, managerEvent>>

ManagerNotRunning ==
    /\ configFile = NotRunning
    /\ activeProfileName = NotRunning
    /\ managerAt = NotRunning
    /\ managerEvent = NotRunning

\* the variables outside each component, and what they are while it runs alone
outsideResolver ==
    <<baseUrlVars, selectorVars, shellVars, togglesVars, discoveryVars,
      commandsVars, configVars, promptVars, overlapVars, storeVars,
      managerVars>>

ResolverAlone ==
    /\ BaseUrlNotRunning
    /\ SelectorNotRunning
    /\ ShellNotRunning
    /\ TogglesNotRunning
    /\ DiscoveryNotRunning
    /\ CommandsNotRunning
    /\ ConfigNotRunning
    /\ PromptNotRunning
    /\ OverlapNotRunning
    /\ StoreNotRunning
    /\ ManagerNotRunning

outsideBaseUrl ==
    <<resolverVars, selectorVars, shellVars, togglesVars, discoveryVars,
      commandsVars, configVars, promptVars, overlapVars, storeVars,
      managerVars>>

BaseUrlAlone ==
    /\ ResolverNotRunning
    /\ SelectorNotRunning
    /\ ShellNotRunning
    /\ TogglesNotRunning
    /\ DiscoveryNotRunning
    /\ CommandsNotRunning
    /\ ConfigNotRunning
    /\ PromptNotRunning
    /\ OverlapNotRunning
    /\ StoreNotRunning
    /\ ManagerNotRunning

otherVars ==
    <<resolverVars, baseUrlVars, shellVars, togglesVars, discoveryVars,
      commandsVars, configVars, promptVars, overlapVars, storeVars,
      managerVars>>

SelectorAlone ==
    /\ ResolverNotRunning
    /\ BaseUrlNotRunning
    /\ ShellNotRunning
    /\ TogglesNotRunning
    /\ DiscoveryNotRunning
    /\ CommandsNotRunning
    /\ ConfigNotRunning
    /\ PromptNotRunning
    /\ OverlapNotRunning
    /\ StoreNotRunning
    /\ ManagerNotRunning

outsideShell ==
    <<resolverVars, baseUrlVars, selectorVars, togglesVars, discoveryVars,
      commandsVars, configVars, promptVars, overlapVars, storeVars,
      managerVars>>

ShellAlone ==
    /\ ResolverNotRunning
    /\ BaseUrlNotRunning
    /\ SelectorNotRunning
    /\ TogglesNotRunning
    /\ DiscoveryNotRunning
    /\ CommandsNotRunning
    /\ ConfigNotRunning
    /\ PromptNotRunning
    /\ OverlapNotRunning
    /\ StoreNotRunning
    /\ ManagerNotRunning

outsideToggles ==
    <<resolverVars, baseUrlVars, selectorVars, shellVars, discoveryVars,
      commandsVars, configVars, promptVars, overlapVars, storeVars,
      managerVars>>

TogglesAlone ==
    /\ ResolverNotRunning
    /\ BaseUrlNotRunning
    /\ SelectorNotRunning
    /\ ShellNotRunning
    /\ DiscoveryNotRunning
    /\ CommandsNotRunning
    /\ ConfigNotRunning
    /\ PromptNotRunning
    /\ OverlapNotRunning
    /\ StoreNotRunning
    /\ ManagerNotRunning

outsideDiscovery ==
    <<resolverVars, baseUrlVars, selectorVars, shellVars, togglesVars,
      commandsVars, configVars, promptVars, overlapVars, storeVars,
      managerVars>>

DiscoveryAlone ==
    /\ ResolverNotRunning
    /\ BaseUrlNotRunning
    /\ SelectorNotRunning
    /\ ShellNotRunning
    /\ TogglesNotRunning
    /\ CommandsNotRunning
    /\ ConfigNotRunning
    /\ PromptNotRunning
    /\ OverlapNotRunning
    /\ StoreNotRunning
    /\ ManagerNotRunning

outsideCommands ==
    <<resolverVars, baseUrlVars, selectorVars, shellVars, togglesVars,
      discoveryVars, configVars, promptVars, overlapVars, storeVars,
      managerVars>>

CommandsAlone ==
    /\ ResolverNotRunning
    /\ BaseUrlNotRunning
    /\ SelectorNotRunning
    /\ ShellNotRunning
    /\ TogglesNotRunning
    /\ DiscoveryNotRunning
    /\ ConfigNotRunning
    /\ PromptNotRunning
    /\ OverlapNotRunning
    /\ StoreNotRunning
    /\ ManagerNotRunning

outsideConfig ==
    <<resolverVars, baseUrlVars, selectorVars, shellVars, togglesVars,
      discoveryVars, commandsVars, promptVars, overlapVars, storeVars,
      managerVars>>

ConfigAlone ==
    /\ ResolverNotRunning
    /\ BaseUrlNotRunning
    /\ SelectorNotRunning
    /\ ShellNotRunning
    /\ TogglesNotRunning
    /\ DiscoveryNotRunning
    /\ CommandsNotRunning
    /\ PromptNotRunning
    /\ OverlapNotRunning
    /\ StoreNotRunning
    /\ ManagerNotRunning

outsidePrompt ==
    <<resolverVars, baseUrlVars, selectorVars, shellVars, togglesVars,
      discoveryVars, commandsVars, configVars, overlapVars, storeVars,
      managerVars>>

PromptAlone ==
    /\ ResolverNotRunning
    /\ BaseUrlNotRunning
    /\ SelectorNotRunning
    /\ ShellNotRunning
    /\ TogglesNotRunning
    /\ DiscoveryNotRunning
    /\ CommandsNotRunning
    /\ ConfigNotRunning
    /\ OverlapNotRunning
    /\ StoreNotRunning
    /\ ManagerNotRunning

outsideOverlap ==
    <<resolverVars, baseUrlVars, selectorVars, shellVars, togglesVars,
      discoveryVars, commandsVars, configVars, promptVars, storeVars,
      managerVars>>

OverlapAlone ==
    /\ ResolverNotRunning
    /\ BaseUrlNotRunning
    /\ SelectorNotRunning
    /\ ShellNotRunning
    /\ TogglesNotRunning
    /\ DiscoveryNotRunning
    /\ CommandsNotRunning
    /\ ConfigNotRunning
    /\ PromptNotRunning
    /\ StoreNotRunning
    /\ ManagerNotRunning

outsideStore ==
    <<resolverVars, baseUrlVars, selectorVars, shellVars, togglesVars,
      discoveryVars, commandsVars, configVars, promptVars, overlapVars,
      managerVars>>

StoreAlone ==
    /\ ResolverNotRunning
    /\ BaseUrlNotRunning
    /\ SelectorNotRunning
    /\ ShellNotRunning
    /\ TogglesNotRunning
    /\ DiscoveryNotRunning
    /\ CommandsNotRunning
    /\ ConfigNotRunning
    /\ PromptNotRunning
    /\ OverlapNotRunning
    /\ ManagerNotRunning

outsideManager ==
    <<resolverVars, baseUrlVars, selectorVars, shellVars, togglesVars,
      discoveryVars, commandsVars, configVars, promptVars, overlapVars,
      storeVars>>

ManagerAlone ==
    /\ ResolverNotRunning
    /\ BaseUrlNotRunning
    /\ SelectorNotRunning
    /\ ShellNotRunning
    /\ TogglesNotRunning
    /\ DiscoveryNotRunning
    /\ CommandsNotRunning
    /\ ConfigNotRunning
    /\ PromptNotRunning
    /\ OverlapNotRunning
    /\ StoreNotRunning

vars ==
    <<resolverVars, baseUrlVars, selectorVars, shellVars, togglesVars,
      discoveryVars, commandsVars, configVars, promptVars, overlapVars,
      storeVars, managerVars>>

----------------------------------------------------------------------------
(* Strings *)

Undefined == <<"undefined">>

Whitespace == {" "}

LowerCase ==
    <<"a", "b", "c", "d", "e", "f", "g", "h", "i", "j", "k", "l", "m",
      "n", "o", "p", "q", "r", "s", "t", "u", "v", "w", "x", "y", "z">>

UpperCase ==
    <<"A", "B", "C", "D", "E", "F", "G", "H", "I", "J", "K", "L", "M",
      "N", "O", "P", "Q", "R", "S", "T", "U", "V", "W", "X", "Y", "Z">>

Digits == {"0", "1", "2", "3", "4", "5", "6", "7", "8", "9"}

\* c.toUpperCase() for one character
ToUpperCase(c) ==
    IF \E i \in 1..Len(LowerCase) : LowerCase[i] = c
    THEN UpperCase[CHOOSE i \in 1..Len(LowerCase) : LowerCase[i] = c]
    ELSE c

\* the characters the class [A-Z0-9_] matches
EnvSafeChars == {UpperCase[i] : i \in 1..Len(UpperCase)} \cup Digits \cup {"_"}

RECURSIVE TrimStart(_)
TrimStart(s) ==
    IF s # <<>> /\ Head(s) \in Whitespace THEN TrimStart(Tail(s)) ELSE s

RECURSIVE TrimEnd(_)
TrimEnd(s) ==
    IF s # <<>> /\ s[Len(s)] \in Whitespace
    THEN TrimEnd(SubSeq(s, 1, Len(s) - 1))
    ELSE s

\* String.prototype.trim
Trim(s) == TrimEnd(TrimStart(s))

\* normalize(value): undefined for a missing, empty or blank value, else the
\* trimmed value.
normalize(value) ==
    IF value = Undefined \/ value = <<>>
    THEN Undefined
    ELSE LET trimmed == Trim(value)
         IN IF Len(trimmed) > 0 THEN trimmed ELSE Undefined

\* a ?? b
Coalesce(a, b) == IF a # Undefined THEN a ELSE b

RECURSIVE StripTrailingSlashes(_)
\* baseUrl.replace(/\/+$/, '')
StripTrailingSlashes(s) ==
    IF s # <<>> /\ s[Len(s)] = "/"
    THEN StripTrailingSlashes(SubSeq(s, 1, Len(s) - 1))
    ELSE s

\* baseUrl.replace(/\/+$/, '') || baseUrl
normalizedBaseUrl(baseUrl) ==
    LET stripped == StripTrailingSlashes(baseUrl)
    IN IF stripped # <<>> THEN stripped ELSE baseUrl

DefaultBaseUrl ==
    <<"h", "t", "t", "p", "s", ":", "/", "/",
      "g", "i", "t", "l", "a", "b", ".", "c", "o", "m">>

RECURSIVE SplitComma(_, _)
\* value.split(','): cur is the piece being read
SplitComma(s, cur) ==
    IF s = <<>> THEN <<cur>>
    ELSE IF Head(s) = "," THEN <<cur>> \o SplitComma(Tail(s), <<>>)
    ELSE SplitComma(Tail(s), Append(cur, Head(s)))

RECURSIVE MapTrim(_)
MapTrim(pieces) ==
    IF pieces = <<>> THEN <<>>
    ELSE <<Trim(Head(pieces))>> \o MapTrim(Tail(pieces))

NonEmptyString(s) == s # <<>>

RECURSIVE Dedup(_, _)
Dedup(names, seen) ==
    IF names = <<>> THEN <<>>
    ELSE IF Head(names) \in seen THEN Dedup(Tail(names), seen)
    ELSE <<Head(names)>> \o Dedup(Tail(names), seen \cup {Head(names)})

\* parseCsv dropping repeated names
parseCsv_Dedup(value) ==
    IF value = Undefined \/ value = <<>>
    THEN <<>>
    ELSE Dedup(SelectSeq(MapTrim(SplitComma(value, <<>>)), NonEmptyString), {})

\* parseCsv(value): the trimmed, non-empty pieces of a comma-separated list
parseCsv(value) ==
    IF value = Undefined \/ value = <<>>
    THEN <<>>
    ELSE SelectSeq(MapTrim(SplitComma(value, <<>>)), NonEmptyString)

RECURSIVE UpperSanitized(_)
\* profileName.toUpperCase().replace(/[^A-Z0-9_]/g, '_')
UpperSanitized(s) ==
    IF s = <<>> THEN <<>>
    ELSE LET u == ToUpperCase(Head(s))
         IN <<IF u \in EnvSafeChars THEN u ELSE "_">> \o UpperSanitized(Tail(s))

\* envKeyForProfile(profileName, key) is `GITLAB_${upper}_${key}`.  The key
\* of an environment variable is kept as the pair <<upper, key>>; the legacy
\* variable GITLAB_<key> is the pair <<Undefined, key>>.  Since key ranges
\* over TOKEN, PROJECT_ID, PROJECT_PATH, BASE_URL and upper is non-empty,
\* two pairs name the same variable exactly when they are equal.
envKeyForProfile(profileName, key) == <<UpperSanitized(profileName), key>>

LegacyKey(key) == <<Undefined, key>>

\* process.env[k]
Getenv(e, k) == IF k \in DOMAIN e THEN e[k] ELSE Undefined

----------------------------------------------------------------------------
(* Results.  A resolution either returns a list of ResolvedProfile or      *)
(* throws; `level` names the return or throw statement that ended it.      *)

NoError == [kind |-> "none", name |-> Undefined, vars |-> <<>>]

Returned(level, profiles) ==
    [status |-> "ok", level |-> level, profiles |-> profiles, error |-> NoError]

Thrown(level, kind, name, variables) ==
    [status |-> "error", level |-> level, profiles |-> <<>>,
     error |-> [kind |-> kind, name |-> name, vars |-> variables]]

Pending ==
    [status |-> "pending", level |-> "none", profiles |-> <<>>, error |-> NoError]

ResolvedProfile(name, baseUrl, token, projectRef) ==
    [name |-> name, baseUrl |-> baseUrl, token |-> token, projectRef |-> projectRef]

\* resolveGitlabConfig(options): one profile from the CLI overrides merged
\* with the legacy environment variables; it always requires a project.
resolveGitlabConfig(opts, e, level) ==
    LET baseUrl == Coalesce(normalize(opts.baseUrl),
                     Coalesce(normalize(Getenv(e, LegacyKey("BASE_URL"))), DefaultBaseUrl))
        token == Coalesce(normalize(opts.token), normalize(Getenv(e, LegacyKey("TOKEN"))))
        projectRef ==
            Coalesce(normalize(opts.projectId),
              Coalesce(normalize(opts.projectPath),
                Coalesce(normalize(Getenv(e, LegacyKey("PROJECT_ID"))),
                         normalize(Getenv(e, LegacyKey("PROJECT_PATH"))))))
    IN IF token = Undefined
       THEN Thrown(level, "MissingToken", Undefined, <<LegacyKey("TOKEN")>>)
       ELSE IF projectRef = Undefined
       THEN Thrown(level, "MissingProject", Undefined, <<>>)
       ELSE Returned(level,
                <<ResolvedProfile(Undefined, normalizedBaseUrl(baseUrl), token, projectRef)>>)

\* Object.keys(fileConfig.profiles)
configuredProfiles(cfg) == [i \in 1..Len(cfg.profiles) |-> cfg.profiles[i].name]

HasProfile(cfg, name) == \E i \in 1..Len(cfg.profiles) : cfg.profiles[i].name = name

\* fileConfig.profiles?.[name]
ProfileOf(cfg, name) ==
    cfg.profiles[CHOOSE i \in 1..Len(cfg.profiles) : cfg.profiles[i].name = name]

projectOverrideOf(opts) ==
    Coalesce(normalize(opts.projectId), normalize(opts.projectPath))

requestedProfilesFromFlag(opts) == parseCsv(normalize(opts.profile))

requestedProfilesFromConfigDefault(cfg) ==
    IF Len(cfg.profiles) > 0
    THEN <<Coalesce(normalize(cfg.defaultProfile), configuredProfiles(cfg)[1])>>
    ELSE <<>>

\* requestedProfiles with --profile read before --all-profiles
requestedProfiles_FlagFirst(opts, cfg) ==
    IF Len(requestedProfilesFromFlag(opts)) > 0
    THEN requestedProfilesFromFlag(opts)
    ELSE IF opts.allProfiles
         THEN configuredProfiles(cfg)
         ELSE requestedProfilesFromConfigDefault(cfg)

requestedProfiles(opts, cfg) ==
    LET fromFlag == requestedProfilesFromFlag(opts)
    IN IF opts.allProfiles
       THEN configuredProfiles(cfg)
       ELSE IF Len(fromFlag) > 0
            THEN fromFlag
            ELSE requestedProfilesFromConfigDefault(cfg)

\* ConfigToken without the fallback to the document's top-level token
ConfigToken_NoFallback(profile, cfg) == normalize(profile.token)

\* the token of a configured profile (line 196)
ConfigToken(profile, cfg) ==
    Coalesce(normalize(profile.token), normalize(cfg.token))

\* the project reference of a configured profile (lines 197-201)
ConfigProjectRef(profile, cfg, opts) ==
    LET projectRefFromConfig ==
            Coalesce(normalize(profile.projectId),
              Coalesce(normalize(profile.projectPath),
                Coalesce(normalize(cfg.projectId), normalize(cfg.projectPath))))
    IN Coalesce(projectOverrideOf(opts), projectRefFromConfig)

RECURSIVE ResolveFromConfig(_, _, _, _, _)
\* the loop over requestedProfiles at the configured-profiles level:
\* names are the names still to visit, resolvedFromConfig the profiles pushed
ResolveFromConfig(names, resolvedFromConfig, opts, cfg, requireProj) ==
    IF names = <<>>
    THEN Returned("config", resolvedFromConfig)
    ELSE LET name == Head(names)
         IN IF ~HasProfile(cfg, name)
            THEN ResolveFromConfig(Tail(names), resolvedFromConfig, opts, cfg, requireProj)
            ELSE LET profile == ProfileOf(cfg, name)
                     baseUrl == Coalesce(normalize(profile.baseUrl),
                                  Coalesce(normalize(cfg.baseUrl), DefaultBaseUrl))
                     token == ConfigToken(profile, cfg)
                     projectRef == ConfigProjectRef(profile, cfg, opts)
                 IN IF token = Undefined
                    THEN Thrown("config", "MissingTokenConfig", name, <<>>)
                    ELSE IF projectRef = Undefined /\ requireProj
                    THEN Thrown("config", "MissingProjectConfig", name, <<>>)
                    ELSE ResolveFromConfig(Tail(names),
                             Append(resolvedFromConfig,
                                 ResolvedProfile(name, normalizedBaseUrl(baseUrl), token, projectRef)),
                             opts, cfg, requireProj)

\* GITLAB_PROFILES, parsed
declaredProfiles(e) == parseCsv(normalize(Getenv(e, LegacyKey("PROFILES"))))

\* requestedProfilesEnv without the --all-profiles branch
requestedProfilesEnv_IgnoresAll(opts, e) ==
    LET fromFlag == requestedProfilesFromFlag(opts)
        declared == declaredProfiles(e)
    IN IF Len(fromFlag) > 0
       THEN fromFlag
       ELSE IF Len(declared) > 0 THEN <<declared[1]>> ELSE <<>>

requestedProfilesEnv(opts, e) ==
    LET fromFlag == requestedProfilesFromFlag(opts)
        declared == declaredProfiles(e)
    IN IF opts.allProfiles
       THEN declared
       ELSE IF Len(fromFlag) > 0
            THEN fromFlag
            ELSE IF Len(declared) > 0 THEN <<declared[1]>> ELSE <<>>

\* EnvProjectRef with the per-profile variables read before the CLI override
EnvProjectRef_EnvWins(name, opts, e) ==
    LET projectIdEnv == normalize(Getenv(e, envKeyForProfile(name, "PROJECT_ID")))
        projectPathEnv == normalize(Getenv(e, envKeyForProfile(name, "PROJECT_PATH")))
    IN Coalesce(Coalesce(projectIdEnv, projectPathEnv), projectOverrideOf(opts))

\* the project reference of an environment-declared profile (lines 258-268)
EnvProjectRef(name, opts, e) ==
    LET projectIdEnv == normalize(Getenv(e, envKeyForProfile(name, "PROJECT_ID")))
        projectPathEnv == normalize(Getenv(e, envKeyForProfile(name, "PROJECT_PATH")))
        projectRefEnv == Coalesce(projectIdEnv, projectPathEnv)
    IN Coalesce(projectOverrideOf(opts), projectRefEnv)

RECURSIVE ResolveFromEnv(_, _, _, _, _)
\* the loop over requestedProfilesEnv at the environment multi-profile level
ResolveFromEnv(names, resolved, opts, e, requireProj) ==
    IF names = <<>>
    THEN Returned("env", resolved)
    ELSE LET name == Head(names)
             token == normalize(Getenv(e, envKeyForProfile(name, "TOKEN")))
             baseUrl == Coalesce(normalize(Getenv(e, envKeyForProfile(name, "BASE_URL"))),
                          Coalesce(normalize(Getenv(e, LegacyKey("BASE_URL"))), DefaultBaseUrl))
             projectRef == EnvProjectRef(name, opts, e)
         IN IF token = Undefined
            THEN Thrown("env", "MissingTokenEnv", name, <<envKeyForProfile(name, "TOKEN")>>)
            ELSE IF projectRef = Undefined /\ requireProj
            THEN Thrown("env", "MissingProjectEnv", name,
                     <<envKeyForProfile(name, "PROJECT_ID"), envKeyForProfile(name, "PROJECT_PATH")>>)
            ELSE ResolveFromEnv(Tail(names),
                     Append(resolved,
                         ResolvedProfile(name, normalizedBaseUrl(baseUrl), token, projectRef)),
                     opts, e, requireProj)

\* the top-level fields of the document as a single profile (lines 223-238)
TopLevelProfile(opts, cfg) ==
    LET baseUrl == Coalesce(normalize(cfg.baseUrl), DefaultBaseUrl)
        token == normalize(cfg.token)
        projectRefFromConfig == Coalesce(normalize(cfg.projectId), normalize(cfg.projectPath))
        projectRef == Coalesce(projectOverrideOf(opts), projectRefFromConfig)
    IN ResolvedProfile(Undefined, normalizedBaseUrl(baseUrl), token, projectRef)

\* the legacy single-value environment variables as a single profile
\* (lines 289-307)
LegacyProfile(opts, e) ==
    LET baseUrl == Coalesce(normalize(opts.baseUrl),
                     Coalesce(normalize(Getenv(e, LegacyKey("BASE_URL"))), DefaultBaseUrl))
        token == Coalesce(normalize(opts.token), normalize(Getenv(e, LegacyKey("TOKEN"))))
        projectRef ==
            Coalesce(projectOverrideOf(opts),
              Coalesce(normalize(Getenv(e, LegacyKey("PROJECT_ID"))),
                       normalize(Getenv(e, LegacyKey("PROJECT_PATH")))))
    IN ResolvedProfile(Undefined, normalizedBaseUrl(baseUrl), token, projectRef)

\* Usable without the project test
Usable_IgnoresProject(profile, requireProj) == profile.token # Undefined

\* Usable with the project always required
Usable_RequiresProject(profile, requireProj) ==
    profile.token # Undefined /\ profile.projectRef # Undefined

\* a single profile of the top-level or legacy fallback is returned
\* (lines 228 and 298)
Usable(profile, requireProj) ==
    profile.token # Undefined /\ (profile.projectRef # Undefined \/ ~requireProj)

\* ExplicitOverride with the short-circuit left out
ExplicitOverride_Off(opts) == FALSE

\* the explicit single-profile override is taken (line 165)
ExplicitOverride(opts) ==
    normalize(opts.token) # Undefined \/ normalize(opts.baseUrl) # Undefined

\* ResolveFromEnvironment going on to the legacy variables when a requested
\* environment profile cannot be resolved
ResolveFromEnvironment_SkipsFailures(opts, e, requireProj) ==
    LET requested == requestedProfilesEnv(opts, e)
        fromEnv == ResolveFromEnv(requested, <<>>, opts, e, requireProj)
        legacy == LegacyProfile(opts, e)
    IN IF Len(requested) > 0 /\ fromEnv.status = "ok" /\ Len(fromEnv.profiles) > 0
       THEN fromEnv
       ELSE IF Usable(legacy, requireProj)
       THEN Returned("legacy", <<legacy>>)
       ELSE resolveGitlabConfig(opts, e, "final")

\* lines 240-309: the levels that read the environment
ResolveFromEnvironment(opts, e, requireProj) ==
    LET requested == requestedProfilesEnv(opts, e)
        fromEnv == ResolveFromEnv(requested, <<>>, opts, e, requireProj)
        legacy == LegacyProfile(opts, e)
    IN IF Len(requested) > 0
          /\ (fromEnv.status = "error" \/ Len(fromEnv.profiles) > 0)
       THEN fromEnv
       ELSE IF Usable(legacy, requireProj)
       THEN Returned("legacy", <<legacy>>)
       ELSE resolveGitlabConfig(opts, e, "final")

\* resolveGitlabProfiles appending the environment-declared profiles to a
\* list resolved from the configured profiles
resolveGitlabProfiles_MergesEnv(opts, cfg, e, requireProj) ==
    IF ExplicitOverride(opts)
    THEN resolveGitlabConfig(opts, e, "cli")
    ELSE LET requested == requestedProfiles(opts, cfg)
             fromConfig == ResolveFromConfig(requested, <<>>, opts, cfg, requireProj)
             fromEnv == ResolveFromEnv(declaredProfiles(e), <<>>, opts, e, requireProj)
             topLevel == TopLevelProfile(opts, cfg)
         IN IF Len(requested) > 0
               /\ (fromConfig.status = "error" \/ Len(fromConfig.profiles) > 0)
            THEN IF fromConfig.status = "ok" /\ fromEnv.status = "ok"
                 THEN Returned("config", fromConfig.profiles \o fromEnv.profiles)
                 ELSE fromConfig
            ELSE IF Usable(topLevel, requireProj)
            THEN Returned("top", <<topLevel>>)
            ELSE ResolveFromEnvironment(opts, e, requireProj)

\* resolveGitlabProfiles(options, {requireProject})
resolveGitlabProfiles(opts, cfg, e, requireProj) ==
    IF ExplicitOverride(opts)
    THEN resolveGitlabConfig(opts, e, "cli")
    ELSE LET requested == requestedProfiles(opts, cfg)
             fromConfig == ResolveFromConfig(requested, <<>>, opts, cfg, requireProj)
             topLevel == TopLevelProfile(opts, cfg)
         IN IF Len(requested) > 0
               /\ (fromConfig.status = "error" \/ Len(fromConfig.profiles) > 0)
            THEN fromConfig
            ELSE IF Usable(topLevel, requireProj)
            THEN Returned("top", <<topLevel>>)
            ELSE ResolveFromEnvironment(opts, e, requireProj)

----------------------------------------------------------------------------
(* Inputs.  Every source of a value has a value of its own, so a resolved  *)
(* field tells where it came from; some values carry blanks or trailing    *)
(* slashes, which normalisation removes.                                   *)

\* the largest number of names a --profile value lists
MaxRequested == 2

FlagNames == {<<"a">>, <<"b">>}

RECURSIVE NameLists(_)
NameLists(n) ==
    IF n = 0 THEN {<<>>}
    ELSE NameLists(n - 1)
         \cup {Append(l, x) : l \in {m \in NameLists(n - 1) : Len(m) = n - 1}, x \in FlagNames}

RECURSIVE JoinNames(_)
\* the names as a --profile value: "a", "a, b", ...
JoinNames(names) ==
    IF names = <<>> THEN <<>>
    ELSE IF Len(names) = 1 THEN names[1]
    ELSE names[1] \o <<",", " ">> \o JoinNames(Tail(names))

ProfileFlagValues ==
    {IF l = <<>> THEN Undefined ELSE JoinNames(l) : l \in NameLists(MaxRequested)}

NoCredentials == [token |-> Undefined, baseUrl |-> Undefined]

CliCredentials ==
    {[token |-> t, baseUrl |-> u] :
        t \in {Undefined, <<" ", "t", "c", " ">>},
        u \in {Undefined, <<"u", "c", "/", "/">>}} \ {NoCredentials}

CliProjects ==
    {[projectId |-> Undefined, projectPath |-> Undefined],
     [projectId |-> <<"9">>, projectPath |-> <<"g", "/", "c">>],
     [projectId |-> <<" ">>, projectPath |-> <<"g", "/", "c">>]}

CliOptions(credentials, flags, allFlags) ==
    {[token |-> c.token, baseUrl |-> c.baseUrl,
      projectId |-> p.projectId, projectPath |-> p.projectPath,
      profile |-> f, allProfiles |-> a] :
        c \in credentials, p \in CliProjects, f \in flags, a \in allFlags}

StoredProfile(name, token, baseUrl, projectId, projectPath) ==
    [name |-> name, token |-> token, baseUrl |-> baseUrl,
     projectId |-> projectId, projectPath |-> projectPath]

StoredA ==
    {StoredProfile(<<"a">>, <<"t", "a">>, <<"u", "a", "/">>, <<"1">>, Undefined),
     StoredProfile(<<"a">>, <<"t", "a">>, Undefined, Undefined, Undefined),
     StoredProfile(<<"a">>, <<" ">>, Undefined, Undefined, <<"g", "/", "a">>)}

StoredB ==
    {StoredProfile(<<"b">>, <<"t", "b">>, Undefined, Undefined, <<"g", "/", "b">>),
     StoredProfile(<<"b">>, Undefined, Undefined, <<"2">>, Undefined)}

ProfileMaps ==
    {<<>>} \cup {<<a>> : a \in StoredA}
           \cup {<<a, b>> : a \in StoredA, b \in StoredB}
           \cup {<<b, a>> : a \in StoredA, b \in StoredB}

TopLevels ==
    {[token |-> Undefined, baseUrl |-> Undefined, projectId |-> Undefined, projectPath |-> Undefined],
     [token |-> <<"t", "f">>, baseUrl |-> Undefined, projectId |-> Undefined, projectPath |-> Undefined],
     [token |-> <<" ", "t", "f">>, baseUrl |-> <<"u", "f", "/">>,
      projectId |-> <<"7">>, projectPath |-> <<"g", "/", "f">>]}

SmallProfileMaps == {m \in ProfileMaps : Len(m) <= 1}

ConfigDocuments(maps) ==
    {[token |-> t.token, baseUrl |-> t.baseUrl, projectId |-> t.projectId,
      projectPath |-> t.projectPath, defaultProfile |-> d, profiles |-> m] :
        t \in TopLevels, m \in maps,
        d \in {Undefined, <<"b">>}}

EmptyEnv == [k \in {} |-> Undefined]

LegacyEnvs ==
    {EmptyEnv,
     (LegacyKey("TOKEN") :> <<"t", "e">>),
     (LegacyKey("TOKEN") :> <<"t", "e">>) @@ (LegacyKey("BASE_URL") :> <<"u", "e", "/">>)
        @@ (LegacyKey("PROJECT_ID") :> <<" ">>) @@ (LegacyKey("PROJECT_PATH") :> <<"g", "/", "e">>)}

DeclaredEnvs ==
    {EmptyEnv, (LegacyKey("PROFILES") :> <<"A", ",", ",", " ", "b">>)}

ProfileEnvsA ==
    {EmptyEnv,
     (<<<<"A">>, "TOKEN">> :> <<"e", "a">>),
     (<<<<"A">>, "TOKEN">> :> <<"e", "a">>) @@ (<<<<"A">>, "PROJECT_ID">> :> <<"3">>)
        @@ (<<<<"A">>, "PROJECT_PATH">> :> <<"g", "/", "x">>)
        @@ (<<<<"A">>, "BASE_URL">> :> <<"/">>)}

ProfileEnvsB ==
    {EmptyEnv,
     (<<<<"B">>, "TOKEN">> :> <<"e", "b">>) @@ (<<<<"B">>, "PROJECT_PATH">> :> <<"g", "/", "y">>)}

Environments ==
    {l @@ d @@ a @@ b : l \in LegacyEnvs, d \in DeclaredEnvs, a \in ProfileEnvsA, b \in ProfileEnvsB}

----------------------------------------------------------------------------
(* The resolver as a state machine: one call of resolveGitlabProfiles on   *)
(* inputs fixed at the start.                                              *)

\* The calls made: with a CLI token or base URL before a document of at
\* most one profile, and without either before every document (a --profile
\* value is not read under --all-profiles, so few are tried there).
InitialCalls ==
    \/ /\ options \in CliOptions(CliCredentials, {Undefined}, {FALSE})
                      \cup CliOptions(CliCredentials, {<<"a">>}, {TRUE})
       /\ fileConfig \in ConfigDocuments(SmallProfileMaps)
    \/ /\ options \in CliOptions({NoCredentials}, ProfileFlagValues, {FALSE})
                      \cup CliOptions({NoCredentials}, {Undefined, <<"a">>}, {TRUE})
       /\ fileConfig \in ConfigDocuments(ProfileMaps)

Init ==
    /\ InitialCalls
    /\ env \in Environments
    /\ requireProject \in BOOLEAN
    /\ result = Pending
    /\ ResolverAlone

Resolve ==
    /\ result.status = "pending"
    /\ result' = resolveGitlabProfiles(options, fileConfig, env, requireProject)
    /\ UNCHANGED <<options, fileConfig, env, requireProject>>
    /\ UNCHANGED outsideResolver

Next == Resolve

Spec == Init /\ [][Next]_vars

----------------------------------------------------------------------------
(* Properties of the profile resolver *)

Resolved == result.status # "pending"

Names(profiles) == [i \in 1..Len(profiles) |-> profiles[i].name]

InDocument(name) == HasProfile(fileConfig, name)

\* C1: a resolution either fails with an error or returns a non-empty list;
\* every returned profile has a non-empty token and, when requireProject is
\* true, a non-empty projectRef.
C1_ReturnsUsableProfiles ==
    Resolved =>
        /\ result.status \in {"ok", "error"}
        /\ result.status = "ok" =>
            /\ Len(result.profiles) > 0
            /\ \A i \in 1..Len(result.profiles) :
                /\ result.profiles[i].token \notin {Undefined, <<>>}
                /\ requireProject => result.profiles[i].projectRef \notin {Undefined, <<>>}

\* a fan-out of two profiles returned while a project is required
C1_Witness ==
    /\ result.status = "ok"
    /\ requireProject
    /\ Len(result.profiles) = 2

C2_CliToken == normalize(options.token)

C2_CliBaseUrl == normalize(options.baseUrl)

C2_CliProject ==
    IF normalize(options.projectId) # Undefined
    THEN normalize(options.projectId)
    ELSE normalize(options.projectPath)

C2_IsCliProfile ==
    /\ result.status = "ok"
    /\ Len(result.profiles) = 1
    /\ result.profiles[1].token = C2_CliToken
    /\ result.profiles[1].baseUrl = normalizedBaseUrl(C2_CliBaseUrl)
    /\ result.profiles[1].projectRef = C2_CliProject

\* C2 as stated: when the CLI supplies both token and baseUrl, exactly one
\* profile is returned whose token, baseUrl and projectRef equal the
\* normalized CLI overrides, whatever the document and the environment hold.
C2_Original ==
    (Resolved /\ C2_CliToken # Undefined /\ C2_CliBaseUrl # Undefined)
        => C2_IsCliProfile

\* C2 as amended: when the CLI supplies token, baseUrl and a project
\* reference, exactly one profile is returned whose token, baseUrl and
\* projectRef equal the normalized CLI overrides, whatever the document and
\* the environment hold.
C2_CliOverridesWin ==
    (Resolved /\ C2_CliToken # Undefined /\ C2_CliBaseUrl # Undefined
        /\ C2_CliProject # Undefined)
        => C2_IsCliProfile

\* the CLI profile returned over a document profile and a full environment
C2_Witness ==
    /\ C2_CliToken # Undefined /\ C2_CliBaseUrl # Undefined /\ C2_CliProject # Undefined
    /\ C2_IsCliProfile
    /\ Len(fileConfig.profiles) = 1
    /\ normalize(fileConfig.token) # Undefined
    /\ normalize(Getenv(env, LegacyKey("TOKEN"))) # Undefined
    /\ normalize(Getenv(env, LegacyKey("BASE_URL"))) # Undefined

C3_WithoutEnv == resolveGitlabProfiles(options, fileConfig, EmptyEnv, requireProject)

\* C3: without a CLI token or base URL, when the document yields a result at
\* the configured-profiles level or at the top-level fallback, the returned
\* list is the same for every content of the environment: it is the list
\* returned under the empty environment.
C3_ConfigResultIgnoresEnv ==
    (Resolved /\ ~ExplicitOverride(options))
        => LET withoutEnv == C3_WithoutEnv
           IN (withoutEnv.status = "ok" /\ withoutEnv.level \in {"config", "top"})
                 => result = withoutEnv

\* two configured profiles returned while the environment declares profiles
\* of its own and holds a legacy token
C3_Witness ==
    /\ result.status = "ok" /\ result.level = "config"
    /\ Len(result.profiles) = 2
    /\ Len(declaredProfiles(env)) = 2
    /\ normalize(Getenv(env, envKeyForProfile(<<"a">>, "TOKEN"))) # Undefined
    /\ normalize(Getenv(env, LegacyKey("TOKEN"))) # Undefined
    /\ normalize(Getenv(env, LegacyKey("BASE_URL"))) # Undefined

C4_Requested ==
    IF options.allProfiles
    THEN Names(fileConfig.profiles)
    ELSE IF parseCsv(normalize(options.profile)) # <<>>
    THEN parseCsv(normalize(options.profile))
    ELSE IF fileConfig.profiles # <<>>
    THEN IF normalize(fileConfig.defaultProfile) # Undefined
         THEN <<normalize(fileConfig.defaultProfile)>>
         ELSE <<fileConfig.profiles[1].name>>
    ELSE <<>>

C4_Found == SelectSeq(C4_Requested, InDocument)

C5_FromFlag ==
    /\ Resolved /\ ~ExplicitOverride(options) /\ ~options.allProfiles
    /\ result.status = "ok" /\ result.level \in {"config", "env"}

\* C5 as stated: a name that occurs several times in --profile yields at
\* most one resolved profile for that name.
C5_Original ==
    (C5_FromFlag /\ normalize(options.profile) # Undefined)
        => \A i, j \in 1..Len(result.profiles) :
              result.profiles[i].name = result.profiles[j].name => i = j

\* C5 as amended: the --profile list is comma-separated and trimmed and is
\* not de-duplicated: the returned list holds one profile per occurrence of
\* a name in --profile, in the order of the occurrences (at the
\* configured-profiles level the occurrences found in the document, at the
\* environment level every occurrence).
C5_OneProfilePerOccurrence ==
    C5_FromFlag =>
        \A l \in NameLists(MaxRequested) \ {<<>>} :
            options.profile = JoinNames(l)
                => /\ result.level = "config" => Names(result.profiles) = SelectSeq(l, InDocument)
                   /\ result.level = "env" => Names(result.profiles) = l

\* --profile "a, a" resolved to two profiles named a
C5_Witness ==
    /\ C5_FromFlag
    /\ options.profile = <<"a", ",", " ", "a">>
    /\ Names(result.profiles) = <<<<"a">>, <<"a">>>>

C6_Dangling ==
    /\ fileConfig.profiles # <<>>
    /\ normalize(fileConfig.defaultProfile) # Undefined
    /\ ~InDocument(normalize(fileConfig.defaultProfile))
    /\ requestedProfilesFromFlag(options) = <<>>
    /\ ~options.allProfiles

\* C6: a dangling defaultProfile is tolerated as "no default": with profiles
\* non-empty, a defaultProfile naming no key and neither --profile nor
\* --all-profiles, the resolver behaves as if defaultProfile were unset.
C6_DanglingDefaultIsNoDefault ==
    (Resolved /\ ~ExplicitOverride(options) /\ C6_Dangling)
        => result = resolveGitlabProfiles(options,
                        [fileConfig EXCEPT !.defaultProfile = Undefined], env, requireProject)

C7_CliProject ==
    IF normalize(options.projectId) # Undefined
    THEN normalize(options.projectId)
    ELSE normalize(options.projectPath)

C7_OnlyProject ==
    /\ normalize(options.token) = Undefined
    /\ normalize(options.baseUrl) = Undefined
    /\ C7_CliProject # Undefined

C8_Present == SelectSeq(requestedProfiles(options, fileConfig), InDocument)

C8_LacksToken(name) ==
    /\ normalize(ProfileOf(fileConfig, name).token) = Undefined
    /\ normalize(fileConfig.token) = Undefined

C8_LacksProject(name) ==
    /\ normalize(ProfileOf(fileConfig, name).projectId) = Undefined
    /\ normalize(ProfileOf(fileConfig, name).projectPath) = Undefined
    /\ normalize(fileConfig.projectId) = Undefined
    /\ normalize(fileConfig.projectPath) = Undefined

C8_Fails(name) ==
    \/ C8_LacksToken(name)
    \/ /\ requireProject
       /\ normalize(options.projectId) = Undefined
       /\ normalize(options.projectPath) = Undefined
       /\ C8_LacksProject(name)

C8_Failing(present) == {i \in 1..Len(present) : C8_Fails(present[i])}

\* C8: at the configured-profiles level a requested name absent from the
\* document is skipped without failing; a requested name that is present
\* and has no token in its record or at the document top level makes the
\* resolution fail with an error naming that profile, even if other
\* requested names resolve; a present name without any project reference
\* fails only when requireProject is true and no CLI project was given.
C8_ConfigLevelFailures ==
    (Resolved /\ ~ExplicitOverride(options))
        => LET present == C8_Present
               failing == C8_Failing(present)
               first == present[CHOOSE i \in failing : \A j \in failing : i <= j]
           IN IF failing # {}
              THEN /\ result.status = "error" /\ result.level = "config"
                   /\ result.error.name = first
                   /\ result.error.kind =
                         IF C8_LacksToken(first)
                         THEN "MissingTokenConfig" ELSE "MissingProjectConfig"
              ELSE ~(result.status = "error" /\ result.level = "config")

\* --all-profiles over a then b, where a resolves and b has no token
C8_Witness ==
    /\ result.status = "error" /\ result.level = "config"
    /\ result.error.kind = "MissingTokenConfig"
    /\ Len(C8_Present) = 2
    /\ ~C8_Fails(C8_Present[1])
    /\ result.error.name = C8_Present[2]

C9_OneProfile(token) ==
    /\ result.status = "ok"
    /\ Len(result.profiles) = 1
    /\ result.profiles[1].token = token
    /\ result.profiles[1].projectRef = Undefined

C9_EmptyDocument ==
    /\ fileConfig.baseUrl = Undefined
    /\ fileConfig.projectId = Undefined
    /\ fileConfig.projectPath = Undefined
    /\ fileConfig.defaultProfile = Undefined
    /\ fileConfig.profiles = <<>>

C9_DocumentOnlyToken == C9_EmptyDocument /\ normalize(fileConfig.token) # Undefined

C9_EnvOnlyToken ==
    /\ C9_EmptyDocument /\ fileConfig.token = Undefined
    /\ DOMAIN env = {LegacyKey("TOKEN")}
    /\ normalize(env[LegacyKey("TOKEN")]) # Undefined

C9_NoCliCredentials ==
    /\ normalize(options.token) = Undefined
    /\ normalize(options.baseUrl) = Undefined

C9_NoCliProject ==
    /\ normalize(options.projectId) = Undefined
    /\ normalize(options.projectPath) = Undefined

\* C9 as stated: with requireProject false and no CLI token or base URL, a
\* document that supplies only a token, or an environment that supplies
\* only GITLAB_TOKEN, resolves to exactly one profile carrying that token
\* with projectRef absent.
C9_Original ==
    (Resolved /\ ~requireProject /\ C9_NoCliCredentials)
        => /\ C9_DocumentOnlyToken => C9_OneProfile(normalize(fileConfig.token))
           /\ C9_EnvOnlyToken => C9_OneProfile(normalize(Getenv(env, LegacyKey("TOKEN"))))

\* C9 as amended: with requireProject false and no CLI token, base URL or
\* project reference, a document that supplies only a token resolves to
\* exactly one profile carrying that token with projectRef absent, and so
\* does an environment that supplies only GITLAB_TOKEN when --profile is
\* not given.
C9_TokenAloneResolves ==
    (Resolved /\ ~requireProject /\ C9_NoCliCredentials /\ C9_NoCliProject)
        => /\ C9_DocumentOnlyToken => C9_OneProfile(normalize(fileConfig.token))
           /\ (C9_EnvOnlyToken /\ normalize(options.profile) = Undefined)
                => C9_OneProfile(normalize(Getenv(env, LegacyKey("TOKEN"))))

\* GITLAB_TOKEN alone resolved without a project
C9_Witness ==
    /\ ~requireProject /\ C9_NoCliCredentials /\ C9_NoCliProject
    /\ C9_EnvOnlyToken /\ normalize(options.profile) = Undefined
    /\ result.level = "legacy"
    /\ C9_OneProfile(normalize(Getenv(env, LegacyKey("TOKEN"))))

\* C10: with requireProject false, a CLI token and no project reference on
\* the CLI or in the environment, the explicit single-profile override
\* returns one profile with projectRef absent instead of failing.
C10_OverrideWithoutProject ==
    (Resolved /\ ~requireProject
        /\ normalize(options.token) # Undefined
        /\ normalize(options.projectId) = Undefined
        /\ normalize(options.projectPath) = Undefined
        /\ normalize(Getenv(env, LegacyKey("PROJECT_ID"))) = Undefined
        /\ normalize(Getenv(env, LegacyKey("PROJECT_PATH"))) = Undefined)
        => /\ result.status = "ok"
           /\ Len(result.profiles) = 1
           /\ result.profiles[1].token = normalize(options.token)
           /\ result.profiles[1].projectRef = Undefined

C11_EnvValue(name, key) == normalize(Getenv(env, <<UpperSanitized(name), key>>))

C11_EnvBaseUrl(name) ==
    LET chosen ==
            IF C11_EnvValue(name, "BASE_URL") # Undefined
            THEN C11_EnvValue(name, "BASE_URL")
            ELSE IF normalize(Getenv(env, LegacyKey("BASE_URL"))) # Undefined
            THEN normalize(Getenv(env, LegacyKey("BASE_URL")))
            ELSE DefaultBaseUrl
    IN normalizedBaseUrl(chosen)

C11_EnvProject(name) ==
    IF C11_EnvValue(name, "PROJECT_ID") # Undefined
    THEN C11_EnvValue(name, "PROJECT_ID")
    ELSE C11_EnvValue(name, "PROJECT_PATH")

C11_CliProject ==
    IF normalize(options.projectId) # Undefined
    THEN normalize(options.projectId)
    ELSE normalize(options.projectPath)

\* the profiles the claim describes for the names: cliWins says whether a
\* CLI project reference replaces the per-profile project variables
C11_Expected(names, cliWins) ==
    [i \in 1..Len(names) |->
        [name |-> names[i],
         baseUrl |-> C11_EnvBaseUrl(names[i]),
         token |-> C11_EnvValue(names[i], "TOKEN"),
         projectRef |-> IF cliWins /\ C11_CliProject # Undefined
                        THEN C11_CliProject
                        ELSE C11_EnvProject(names[i])]]

\* no config level resolved and GITLAB_PROFILES declares names
C11_EnvLevelReached ==
    /\ Resolved
    /\ result.level \notin {"cli", "config", "top"}
    /\ declaredProfiles(env) # <<>>

C11_Holds(cliWins) ==
    LET declared == declaredProfiles(env)
    IN /\ options.allProfiles
            => /\ result.level = "env"
               /\ result.status = "ok" => result.profiles = C11_Expected(declared, cliWins)
       /\ (~options.allProfiles /\ normalize(options.profile) = Undefined)
            => /\ result.level = "env"
               /\ result.status = "ok"
                    => result.profiles = C11_Expected(<<declared[1]>>, cliWins)

\* C11 as stated: when no config level resolves and GITLAB_PROFILES declares
\* names, --all-profiles returns one profile per declared name, in
\* declaration order, named after it, with token from GITLAB_<NAME>_TOKEN,
\* projectRef from GITLAB_<NAME>_PROJECT_ID or else GITLAB_<NAME>_PROJECT_PATH
\* and base URL from GITLAB_<NAME>_BASE_URL, else GITLAB_BASE_URL, else the
\* public host; without --all-profiles and --profile only the first declared
\* name is resolved.
C11_Original == C11_EnvLevelReached => C11_Holds(FALSE)

\* C11 as amended: the same, with projectRef taken from the CLI project
\* reference when one is given and from the per-profile variables otherwise.
C11_EnvProfilesInDeclarationOrder == C11_EnvLevelReached => C11_Holds(TRUE)

\* --all-profiles over GITLAB_PROFILES "A,, b": two profiles, the first
\* with a project and base URL of its own, the second on GITLAB_BASE_URL
C11_Witness ==
    /\ C11_EnvLevelReached /\ options.allProfiles
    /\ result.status = "ok" /\ result.level = "env"
    /\ Names(result.profiles) = <<<<"A">>, <<"b">>>>
    /\ C11_CliProject = Undefined
    /\ C11_EnvValue(<<"A">>, "PROJECT_ID") # Undefined
    /\ C11_EnvValue(<<"A">>, "BASE_URL") # Undefined
    /\ normalize(Getenv(env, LegacyKey("BASE_URL"))) # Undefined
    /\ result.profiles = C11_Expected(declaredProfiles(env), TRUE)

C12_Requested ==
    IF options.allProfiles
    THEN parseCsv(normalize(Getenv(env, <<Undefined, "PROFILES">>)))
    ELSE IF parseCsv(normalize(options.profile)) # <<>>
    THEN parseCsv(normalize(options.profile))
    ELSE LET declared == parseCsv(normalize(Getenv(env, <<Undefined, "PROFILES">>)))
         IN IF declared = <<>> THEN <<>> ELSE <<declared[1]>>

C12_LacksToken(name) ==
    normalize(Getenv(env, <<UpperSanitized(name), "TOKEN">>)) = Undefined

C12_LacksProject(name) ==
    /\ requireProject
    /\ normalize(options.projectId) = Undefined
    /\ normalize(options.projectPath) = Undefined
    /\ normalize(Getenv(env, <<UpperSanitized(name), "PROJECT_ID">>)) = Undefined
    /\ normalize(Getenv(env, <<UpperSanitized(name), "PROJECT_PATH">>)) = Undefined

C12_Failing(requested) ==
    {i \in 1..Len(requested) :
        C12_LacksToken(requested[i]) \/ C12_LacksProject(requested[i])}

\* C12: at the environment multi-profile level a requested name whose
\* GITLAB_<NAME>_TOKEN is missing makes the resolution fail with an error
\* naming that variable, and a missing project reference, when required,
\* fails naming both GITLAB_<NAME>_PROJECT_ID and GITLAB_<NAME>_PROJECT_PATH;
\* the failure is final: the legacy variables are not consulted and no
\* profile is returned for the other requested names.
C12_EnvFailureIsHard ==
    (Resolved /\ result.level \notin {"cli", "config", "top"})
        => LET requested == C12_Requested
               failing == C12_Failing(requested)
               first == requested[CHOOSE i \in failing : \A j \in failing : i <= j]
           IN failing # {}
                => /\ result.status = "error" /\ result.level = "env"
                   /\ result.profiles = <<>>
                   /\ result.error.name = first
                   /\ C12_LacksToken(first)
                        => /\ result.error.kind = "MissingTokenEnv"
                           /\ result.error.vars = <<<<UpperSanitized(first), "TOKEN">>>>
                   /\ ~C12_LacksToken(first)
                        => /\ result.error.kind = "MissingProjectEnv"
                           /\ result.error.vars =
                                <<<<UpperSanitized(first), "PROJECT_ID">>,
                                  <<UpperSanitized(first), "PROJECT_PATH">>>>

\* the second requested name has no token while the first resolves and the
\* legacy GITLAB_TOKEN and a legacy project are set
C12_Witness ==
    /\ result.status = "error" /\ result.level = "env"
    /\ result.error.kind = "MissingTokenEnv"
    /\ Len(C12_Requested) = 2
    /\ C12_Failing(C12_Requested) = {2}
    /\ result.error.name = C12_Requested[2]
    /\ normalize(Getenv(env, LegacyKey("TOKEN"))) # Undefined
    /\ \/ normalize(Getenv(env, LegacyKey("PROJECT_ID"))) # Undefined
       \/ normalize(Getenv(env, LegacyKey("PROJECT_PATH"))) # Undefined

\* a required project reference is missing for a name whose token is set
C12_WitnessProject ==
    /\ result.status = "error" /\ result.level = "env"
    /\ result.error.kind = "MissingProjectEnv"
    /\ Len(result.error.vars) = 2

----------------------------------------------------------------------------
(* Base-URL normalization as a state machine: a string is normalized, and  *)
(* the value returned is normalized again.                                 *)

\* commands/profile.ts trimBaseUrl(url)
trimBaseUrl(url) ==
    LET trimmed == Trim(url)
    IN normalizedBaseUrl(trimmed)

\* resolveGitlabConfig's baseUrl for options.baseUrl = value while
\* GITLAB_BASE_URL is unset
resolvedBaseUrl(value) ==
    LET baseUrl == Coalesce(normalize(value), DefaultBaseUrl)
    IN normalizedBaseUrl(baseUrl)

Normalizers == {"trimBaseUrl", "resolveGitlabConfig"}

NormalizeBaseUrl(via, value) ==
    IF via = "trimBaseUrl" THEN trimBaseUrl(value) ELSE resolvedBaseUrl(value)

MaxUrlLen == 4

UrlChars == {"a", "/", " "}

RECURSIVE UrlStrings(_)
UrlStrings(n) ==
    IF n = 0
    THEN {<<>>}
    ELSE LET shorter == UrlStrings(n - 1)
         IN shorter \cup {Append(s, c) : s \in shorter, c \in UrlChars}

NotNormalized == <<"not normalized">>

InitBaseUrl ==
    /\ normalizer \in Normalizers
    /\ baseUrlInput \in UrlStrings(MaxUrlLen)
    /\ baseUrlOnce = NotNormalized
    /\ baseUrlTwice = NotNormalized
    /\ BaseUrlAlone

NormalizeOnce ==
    /\ baseUrlOnce = NotNormalized
    /\ baseUrlOnce' = NormalizeBaseUrl(normalizer, baseUrlInput)
    /\ UNCHANGED <<normalizer, baseUrlInput, baseUrlTwice>>
    /\ UNCHANGED outsideBaseUrl

NormalizeAgain ==
    /\ baseUrlOnce # NotNormalized
    /\ baseUrlTwice = NotNormalized
    /\ baseUrlTwice' = NormalizeBaseUrl(normalizer, baseUrlOnce)
    /\ UNCHANGED <<normalizer, baseUrlInput, baseUrlOnce>>
    /\ UNCHANGED outsideBaseUrl

NextBaseUrl == NormalizeOnce \/ NormalizeAgain

SpecBaseUrl == InitBaseUrl /\ [][NextBaseUrl]_vars

\* C13: base-URL normalization is idempotent: normalizing the normalized
\* output again yields the same string, for every input string.
C13_NormalizationIsIdempotent ==
    baseUrlTwice # NotNormalized => baseUrlTwice = baseUrlOnce

----------------------------------------------------------------------------
(* The paged selector, selectFromPagedList.  Items are numbers, 0 being a  *)
(* falsy item; indexes are 0-based as in the source, so the item at index  *)
(* i is items[i + 1].  formatItem throws on the indexes in formatFails.    *)
(* onToggleFavorite, when supplied, returns a promise that is later        *)
(* fulfilled or rejected, as the async callback of the interactive shell.  *)

\* const DEFAULT_PAGE_SIZE = 10
DEFAULT_PAGE_SIZE == 10

Min(a, b) == IF a < b THEN a ELSE b

Max(a, b) == IF a > b THEN a ELSE b

\* Math.ceil(a / b) for a >= 0, b >= 1
Ceil(a, b) == (a + b - 1) \div b

\* finish(undefined), return undefined: no selection
NoSelection == -1

\* a falsy item
Falsy == 0

Truthy(item) == item # Falsy

\* items[index]: undefined outside the list
ItemAt(index) ==
    IF index + 1 \in DOMAIN items THEN items[index + 1] ELSE NoSelection

\* const totalPages = Math.max(1, Math.ceil(items.length / pageSize))
totalPages == Max(1, Ceil(Len(items), pageSize))

\* ensureSelectionVisible without the clamp
ensureSelectionVisible_NoClamp(selection, page) == selection

\* ensureSelectionVisible(): selectionIndex clamped into the page pageIndex
ensureSelectionVisible(selection, page) ==
    LET start == page * pageSize
        end == Min(start + pageSize - 1, Len(items) - 1)
    IN IF selection < start
       THEN start
       ELSE IF selection > end THEN end ELSE selection

\* renderPage(): the selection made visible, whether formatItem threw on
\* an item of the page, and the new value of lastRenderLines (title, help
\* text, blank, one line and a blank per item, footer, blank; plus one)
renderPage(selection, page) ==
    LET visible == ensureSelectionVisible(selection, page)
        start == page * pageSize
        end == Min(start + pageSize, Len(items))
        lines == 3 + 2 * (end - start) + 2
    IN [selectionIndex |-> visible,
        threw |-> \E idx \in start..(end - 1) : idx \in formatFails,
        rows |-> lines,
        lastRenderLines |-> lines + 1]

\* case 'up' without its guard
AfterUp_NoGuard(selection, page) ==
    [selectionIndex |-> selection - 1,
     pageIndex |-> (selection - 1) \div pageSize, render |-> TRUE]

\* case 'up'
AfterUp(selection, page) ==
    IF selection > 0
    THEN [selectionIndex |-> selection - 1,
          pageIndex |-> (selection - 1) \div pageSize, render |-> TRUE]
    ELSE [selectionIndex |-> selection, pageIndex |-> page, render |-> FALSE]

\* case 'down'
AfterDown(selection, page) ==
    IF selection < Len(items) - 1
    THEN [selectionIndex |-> selection + 1,
          pageIndex |-> (selection + 1) \div pageSize, render |-> TRUE]
    ELSE [selectionIndex |-> selection, pageIndex |-> page, render |-> FALSE]

\* case 'left', 'pageup'
AfterLeft(selection, page) ==
    IF page > 0
    THEN [selectionIndex |-> ensureSelectionVisible(selection, page - 1),
          pageIndex |-> page - 1, render |-> TRUE]
    ELSE [selectionIndex |-> selection, pageIndex |-> page, render |-> FALSE]

\* case 'right', 'pagedown' without its guard
AfterRight_NoGuard(selection, page) ==
    [selectionIndex |-> ensureSelectionVisible(selection, page + 1),
     pageIndex |-> page + 1, render |-> TRUE]

\* case 'right', 'pagedown'
AfterRight(selection, page) ==
    IF page < totalPages - 1
    THEN [selectionIndex |-> ensureSelectionVisible(selection, page + 1),
          pageIndex |-> page + 1, render |-> TRUE]
    ELSE [selectionIndex |-> selection, pageIndex |-> page, render |-> FALSE]

\* the digit keys accepting every target inside the item bounds
AfterDigit_AnyPage(digit, selection, page) ==
    LET start == page * pageSize
        target == start + (digit - 1)
    IN IF target < Len(items)
       THEN [selectionIndex |-> target, pageIndex |-> page, render |-> TRUE]
       ELSE [selectionIndex |-> selection, pageIndex |-> page, render |-> FALSE]

\* the digit keys: /^[1-9]$/.test(sequence)
AfterDigit(digit, selection, page) ==
    LET start == page * pageSize
        target == start + (digit - 1)
    IN IF target < Len(items) /\ target < start + pageSize
       THEN [selectionIndex |-> target, pageIndex |-> page, render |-> TRUE]
       ELSE [selectionIndex |-> selection, pageIndex |-> page, render |-> FALSE]

\* the inputs tried
MaxItems == 4

MaxPageSize == 3

ManyItems == 25

MaxPending == 2

MaxDown == ManyItems + 1

\* downPresses when a key other than Down has been pressed
Untracked == -1

ItemLists(n) ==
    {[i \in 1..n |-> i], [i \in 1..n |-> IF i = n THEN Falsy ELSE i]}

FormatFailures(n) == {{}} \cup {{i} : i \in 0..(n - 1)}

Callbacks == {"absent", "supplied"}

SelectorCalls ==
    \/ /\ \E n \in 0..MaxItems :
            /\ items \in ItemLists(n)
            /\ formatFails \in FormatFailures(n)
       /\ pageSize \in 1..MaxPageSize
       /\ onToggleFavorite \in Callbacks
       /\ isTTY \in BOOLEAN
       /\ rawBefore \in BOOLEAN
    \/ /\ items = [i \in 1..ManyItems |-> i]
       /\ formatFails \in {{}, {ManyItems - 1}}
       /\ pageSize = DEFAULT_PAGE_SIZE
       /\ onToggleFavorite \in Callbacks
       /\ isTTY = TRUE
       /\ rawBefore = FALSE

NoEvent == [name |-> "none", digit |-> 0, frames |-> 0, warnings |-> 0, invokedOn |-> <<>>]

Event(name, digit, frames, warnings, invokedOn) ==
    [name |-> name, digit |-> digit, frames |-> frames,
     warnings |-> warnings, invokedOn |-> invokedOn]

NoPromise == [state |-> "none", value |-> NoSelection]

\* the rows above the first frame that are told apart
MaxRise == 1

Risen(row) == Max(row, -MaxRise)

\* the row of the cursor: after the frame of the page, whose write of
\* lines.join('\n') and '\n' moved it down by lines.length rows; after
\* cleanup() below the row it cleared from
CursorRow ==
    IF lastRenderLines > 0
    THEN frameTop + renderPage(selectionIndex, pageIndex).rows
    ELSE IF cleaned THEN frameTop + 1 ELSE frameTop

\* renderPage(): the row its frame begins at, after logged lines of
\* logger.warn: readline.moveCursor(ttyOutput, 0, -lastRenderLines) when a
\* frame is on the screen
RedrawnFrom(logged) == Risen(CursorRow + logged - lastRenderLines)

\* cleanup(): the row it clears from
ClearedFrom == Risen(CursorRow - lastRenderLines)

InitSelector ==
    /\ SelectorCalls
    /\ isRaw = rawBefore
    /\ listening = FALSE
    /\ wasRaw = FALSE
    /\ selectionIndex = 0
    /\ pageIndex = 0
    /\ lastRenderLines = 0
    /\ frameTop = 0
    /\ cleaned = FALSE
    /\ control = "idle"
    /\ promise = NoPromise
    /\ resolveCalls = 0
    /\ pendingToggles = 0
    /\ lastEvent = NoEvent
    /\ downPresses = Untracked
    /\ SelectorAlone

\* the test of line 182 never taken
EmptyList_Never == FALSE

\* if (items.length === 0)
EmptyList == Len(items) = 0

\* selectFromPagedList up to the first frame (lines 182-228, 389-390)
Start ==
    /\ control = "idle"
    /\ UNCHANGED <<selectorArgs, otherVars, cleaned, resolveCalls, pendingToggles>>
    /\ downPresses' = 0
    /\ selectionIndex' = 0
    /\ pageIndex' = 0
    /\ IF EmptyList
       THEN \* return undefined
            /\ control' = "caller"
            /\ promise' = [state |-> "fulfilled", value |-> NoSelection]
            /\ lastEvent' = Event("start", 0, 0, 0, <<>>)
            /\ UNCHANGED <<isRaw, listening, wasRaw, lastRenderLines, frameTop>>
       ELSE IF ~isTTY
       THEN \* return await fallbackSelect()
            /\ control' = "fallback"
            /\ lastEvent' = Event("start", 0, 0, 0, <<>>)
            /\ UNCHANGED <<isRaw, listening, wasRaw, lastRenderLines, frameTop, promise>>
       ELSE LET rendered == renderPage(0, 0)
            IN /\ wasRaw' = isRaw
               /\ isRaw' = TRUE
               /\ listening' = TRUE
               /\ IF rendered.threw
                  THEN \* the executor throws: the promise is rejected
                       /\ control' = "caller"
                       /\ promise' = [state |-> "rejected", value |-> NoSelection]
                       /\ lastRenderLines' = 0
                       /\ frameTop' = 0
                       /\ lastEvent' = Event("start", 0, 0, 0, <<>>)
                  ELSE /\ control' = "selector"
                       /\ promise' = [state |-> "pending", value |-> NoSelection]
                       /\ lastRenderLines' = rendered.lastRenderLines
                       /\ frameTop' = 0
                       /\ lastEvent' = Event("start", 0, 1, 0, <<>>)

\* the process runs and keypressHandler is attached to the input stream
Listening == listening /\ control \in {"selector", "caller"}

\* the tail of a key's case: renderPage() when the case moved, the state
\* left as the case set it when formatItem throws out of the handler
Moved(name, digit, after) ==
    /\ pageIndex' = after.pageIndex
    /\ IF after.render
       THEN LET rendered == renderPage(after.selectionIndex, after.pageIndex)
            IN /\ selectionIndex' = rendered.selectionIndex
               /\ IF rendered.threw
                  THEN /\ control' = "crashed"
                       /\ lastEvent' = Event(name, digit, 0, 0, <<>>)
                       /\ UNCHANGED <<lastRenderLines, frameTop>>
                  ELSE /\ lastRenderLines' = rendered.lastRenderLines
                       /\ frameTop' = RedrawnFrom(0)
                       /\ lastEvent' = Event(name, digit, 1, 0, <<>>)
                       /\ UNCHANGED control
       ELSE /\ selectionIndex' = after.selectionIndex
            /\ lastEvent' = Event(name, digit, 0, 0, <<>>)
            /\ UNCHANGED <<control, lastRenderLines, frameTop>>
    /\ UNCHANGED <<selectorArgs, otherVars, isRaw, listening, wasRaw, cleaned,
                   promise, resolveCalls, pendingToggles>>

KeyLeft ==
    /\ Listening
    /\ Moved("left", 0, AfterLeft(selectionIndex, pageIndex))
    /\ downPresses' = Untracked

KeyRight ==
    /\ Listening
    /\ Moved("right", 0, AfterRight(selectionIndex, pageIndex))
    /\ downPresses' = Untracked

KeyUp ==
    /\ Listening
    /\ Moved("up", 0, AfterUp(selectionIndex, pageIndex))
    /\ downPresses' = Untracked

KeyDown ==
    /\ Listening
    /\ Moved("down", 0, AfterDown(selectionIndex, pageIndex))
    /\ downPresses' = IF downPresses # Untracked /\ downPresses < MaxDown
                      THEN downPresses + 1
                      ELSE Untracked

KeyDigit ==
    /\ Listening
    /\ \E digit \in 1..9 :
            Moved("digit", digit, AfterDigit(digit, selectionIndex, pageIndex))
    /\ downPresses' = Untracked

\* a key event without a key, or a key with no case of its own
KeyOther ==
    /\ Listening
    /\ lastEvent' = Event("other", 0, 0, 0, <<>>)
    /\ downPresses' = Untracked
    /\ UNCHANGED <<selectorArgs, otherVars, isRaw, listening, wasRaw, cleaned,
                   selectionIndex, pageIndex, lastRenderLines, frameTop, control, promise,
                   resolveCalls, pendingToggles>>

\* cleanup() leaving keypressHandler attached
cleanup_KeepsListener ==
    IF cleaned
    THEN UNCHANGED <<cleaned, listening, isRaw, lastRenderLines, frameTop>>
    ELSE /\ cleaned' = TRUE
         /\ isRaw' = IF ~wasRaw THEN FALSE ELSE isRaw
         /\ lastRenderLines' = 0
         /\ frameTop' = ClearedFrom
         /\ UNCHANGED listening

\* cleanup(): once; the handler removed, raw mode switched off when it was
\* off before, the frame cleared
cleanup ==
    IF cleaned
    THEN UNCHANGED <<cleaned, listening, isRaw, lastRenderLines, frameTop>>
    ELSE /\ cleaned' = TRUE
         /\ listening' = FALSE
         /\ isRaw' = IF ~wasRaw THEN FALSE ELSE isRaw
         /\ lastRenderLines' = 0
         /\ frameTop' = ClearedFrom

\* finish(choice): cleanup(); resolve(choice), which settles the promise
\* only while it is pending
finish(choice) ==
    /\ cleanup
    /\ resolveCalls' = resolveCalls + 1
    /\ promise' = IF promise.state = "pending"
                  THEN [state |-> "fulfilled", value |-> choice]
                  ELSE promise
    /\ control' = "caller"

KeyEnter ==
    /\ Listening
    /\ finish(ItemAt(selectionIndex))
    /\ lastEvent' = Event("enter", 0, 0, 0, <<>>)
    /\ downPresses' = Untracked
    /\ UNCHANGED <<selectorArgs, otherVars, wasRaw, selectionIndex, pageIndex,
                   pendingToggles>>

KeyEscape ==
    /\ Listening
    /\ finish(NoSelection)
    /\ lastEvent' = Event("escape", 0, 0, 0, <<>>)
    /\ downPresses' = Untracked
    /\ UNCHANGED <<selectorArgs, otherVars, wasRaw, selectionIndex, pageIndex,
                   pendingToggles>>

\* Ctrl-C: cleanup(); process.kill(process.pid, 'SIGINT')
KeyCtrlC ==
    /\ Listening
    /\ cleanup
    /\ control' = "interrupted"
    /\ lastEvent' = Event("ctrl-c", 0, 0, 0, <<>>)
    /\ downPresses' = Untracked
    /\ UNCHANGED <<selectorArgs, otherVars, wasRaw, selectionIndex, pageIndex,
                   promise, resolveCalls, pendingToggles>>

\* case 'f' calling the callback whether or not one was supplied
Toggles_Always(selection) == Truthy(ItemAt(selection))

\* case 'f': typeof onToggleFavorite === 'function', and current is truthy
Toggles(selection) ==
    /\ onToggleFavorite = "supplied"
    /\ Truthy(ItemAt(selection))

KeyF ==
    /\ Listening
    /\ IF Toggles(selectionIndex)
       THEN /\ pendingToggles < MaxPending
            /\ pendingToggles' = pendingToggles + 1
            /\ lastEvent' = Event("f", 0, 0, 0, <<ItemAt(selectionIndex), selectionIndex>>)
       ELSE /\ lastEvent' = Event("f", 0, 0, 0, <<>>)
            /\ UNCHANGED pendingToggles
    /\ downPresses' = Untracked
    /\ UNCHANGED <<selectorArgs, otherVars, isRaw, listening, wasRaw, cleaned,
                   selectionIndex, pageIndex, lastRenderLines, frameTop, control, promise,
                   resolveCalls>>

\* the callbacks of the promise of onToggleFavorite: ensureSelectionVisible()
\* and renderPage(), after logger.warn when the promise was rejected or the
\* then-callback threw; formatItem throwing in the catch-callback is an
\* unhandled rejection
ToggleSettled(name, failed) ==
    /\ control \in {"selector", "caller"}
    /\ pendingToggles' = pendingToggles - 1
    /\ LET rendered == renderPage(ensureSelectionVisible(selectionIndex, pageIndex),
                                  pageIndex)
       IN /\ selectionIndex' = rendered.selectionIndex
          /\ IF rendered.threw
             THEN /\ control' = "crashed"
                  /\ lastEvent' = Event(name, 0, 0, 1, <<>>)
                  /\ UNCHANGED <<lastRenderLines, frameTop>>
             ELSE /\ lastRenderLines' = rendered.lastRenderLines
                  /\ frameTop' = RedrawnFrom(IF failed THEN 1 ELSE 0)
                  /\ lastEvent' = Event(name, 0, 1, IF failed THEN 1 ELSE 0, <<>>)
                  /\ UNCHANGED control
    /\ UNCHANGED <<selectorArgs, otherVars, isRaw, listening, wasRaw, cleaned,
                   pageIndex, promise, resolveCalls, downPresses>>

\* .then(() => { ensureSelectionVisible(); renderPage() })
ToggleFulfilled ==
    /\ pendingToggles > 0
    /\ ToggleSettled("toggle fulfilled", FALSE)

\* .catch((error) => { logger.warn(...); ensureSelectionVisible(); renderPage() })
ToggleRejected ==
    /\ pendingToggles > 0
    /\ ToggleSettled("toggle rejected", TRUE)

\* a key pressed when keypressHandler is not attached: no handler runs
KeyUnheard ==
    /\ control = "caller"
    /\ ~listening
    /\ lastEvent' = Event("unheard", 0, 0, 0, <<>>)
    /\ downPresses' = Untracked
    /\ UNCHANGED <<selectorArgs, otherVars, isRaw, listening, wasRaw, cleaned,
                   selectionIndex, pageIndex, lastRenderLines, frameTop, control, promise,
                   resolveCalls, pendingToggles>>

NextSelector ==
    \/ Start
    \/ KeyLeft
    \/ KeyRight
    \/ KeyUp
    \/ KeyDown
    \/ KeyDigit
    \/ KeyOther
    \/ KeyEnter
    \/ KeyEscape
    \/ KeyCtrlC
    \/ KeyF
    \/ ToggleFulfilled
    \/ ToggleRejected
    \/ KeyUnheard

SpecSelector == InitSelector /\ [][NextSelector]_vars

----------------------------------------------------------------------------
(* Properties of the paged selector *)

\* the selector was entered on a terminal with a non-empty list
Started == control \notin {"idle", "fallback"} /\ Len(items) > 0

\* C14: with a non-empty item list and pageSize >= 1, after every key
\* event 0 <= selectionIndex <= items.length - 1,
\* 0 <= pageIndex <= totalPages - 1 and
\* pageIndex = floor(selectionIndex / pageSize).
C14_SelectionOnPage ==
    Started =>
        /\ 0 <= selectionIndex /\ selectionIndex <= Len(items) - 1
        /\ 0 <= pageIndex
        /\ pageIndex <= Max(1, (Len(items) + pageSize - 1) \div pageSize) - 1
        /\ pageIndex = selectionIndex \div pageSize

\* a page key pressed on a later page of a list of several pages, with a
\* favorite toggle still running
C14_Witness ==
    /\ Started
    /\ lastEvent.name = "right"
    /\ pageIndex >= 2
    /\ selectionIndex = pageIndex * pageSize
    /\ pendingToggles > 0

\* C15: Down increases selectionIndex by exactly one when it is below the
\* last index and Up decreases it by exactly one when it is above 0,
\* otherwise the state is unchanged; pageIndex follows the selection; from
\* the initial state k presses of Down leave
\* selectionIndex = min(k, items.length - 1).
C15_UpDown ==
    /\ [][/\ lastEvent'.name = "down"
             => IF selectionIndex < Len(items) - 1
                THEN /\ selectionIndex' = selectionIndex + 1
                     /\ pageIndex' = selectionIndex' \div pageSize
                ELSE UNCHANGED <<selectionIndex, pageIndex, lastRenderLines>>
          /\ lastEvent'.name = "up"
             => IF selectionIndex > 0
                THEN /\ selectionIndex' = selectionIndex - 1
                     /\ pageIndex' = selectionIndex' \div pageSize
                ELSE UNCHANGED <<selectionIndex, pageIndex, lastRenderLines>>]_vars
    /\ []((Started /\ downPresses # Untracked)
            => /\ selectionIndex = Min(downPresses, Len(items) - 1)
               /\ pageIndex = selectionIndex \div pageSize)

\* 25 items, pageSize 10: the tenth Down gives index 10 on page 1
C15_Witness ==
    /\ Len(items) = 25 /\ pageSize = 10
    /\ downPresses = 10
    /\ lastEvent.name = "down"
    /\ selectionIndex = 10 /\ pageIndex = 1

\* C16: Left/PageUp decrements pageIndex by one when pageIndex > 0 and
\* Right/PageDown increments it by one when pageIndex < totalPages - 1,
\* the selection becoming the last item of the page after going back and
\* the first item of the page after going forward; on the first page
\* Left/PageUp and on the last page Right/PageDown change nothing.
C16_PageKeys ==
    [][/\ lastEvent'.name = "left"
          => IF pageIndex > 0
             THEN /\ pageIndex' = pageIndex - 1
                  /\ selectionIndex' = pageIndex * pageSize - 1
             ELSE UNCHANGED <<selectionIndex, pageIndex, lastRenderLines>>
       /\ lastEvent'.name = "right"
          => IF pageIndex < Max(1, (Len(items) + pageSize - 1) \div pageSize) - 1
             THEN /\ pageIndex' = pageIndex + 1
                  /\ selectionIndex' = (pageIndex + 1) * pageSize
             ELSE UNCHANGED <<selectionIndex, pageIndex, lastRenderLines>>]_vars

\* Left pressed on the second page: the last item of the first page
C16_Witness ==
    /\ Started
    /\ lastEvent.name = "left" /\ lastEvent.frames = 1
    /\ pageSize > 1
    /\ pageIndex = 0 /\ selectionIndex = pageSize - 1

\* Right pressed on the last page
C16_WitnessLastPage ==
    /\ Started
    /\ lastEvent.name = "right" /\ lastEvent.frames = 0
    /\ pageIndex = totalPages - 1 /\ pageIndex > 0
    /\ control = "selector"

\* C17: a digit d in 1..9 sets selectionIndex to
\* pageIndex * pageSize + (d - 1) when that index lies within the current
\* page and within the item bounds; otherwise selectionIndex and pageIndex
\* are unchanged.  A digit never changes pageIndex.
C17_Digits ==
    [][lastEvent'.name = "digit"
         => LET target == pageIndex * pageSize + (lastEvent'.digit - 1)
            IN /\ pageIndex' = pageIndex
               /\ selectionIndex' =
                    IF /\ target <= Len(items) - 1
                       /\ target <= pageIndex * pageSize + pageSize - 1
                    THEN target
                    ELSE selectionIndex]_vars

\* 5 pressed on page 1 with pageSize 10 selects index 14
C17_Witness ==
    /\ Len(items) = 25 /\ pageSize = 10
    /\ lastEvent.name = "digit" /\ lastEvent.digit = 5
    /\ pageIndex = 1 /\ selectionIndex = 14

\* a digit beyond the page, and a digit beyond the list on its last page
C17_WitnessRejected ==
    /\ Len(items) = 25 /\ pageSize = 10
    /\ lastEvent.name = "digit" /\ lastEvent.digit = 6 /\ lastEvent.frames = 0
    /\ pageIndex = 2 /\ selectionIndex = 20

KeyEvents ==
    {"left", "right", "up", "down", "digit", "other", "enter", "escape",
     "ctrl-c", "f", "unheard"}

\* C18: Enter resolves the pending result with the item at the current
\* selectionIndex and Escape, pressed in any state, resolves it with "no
\* selection"; either one terminates the loop, the result is resolved
\* exactly once, the items sequence is left untouched, and key events
\* arriving after termination change neither the result nor the selector
\* state.
C18_EnterAndEscape ==
    /\ [][/\ (lastEvent'.name = "enter" /\ promise.state = "pending")
             => /\ promise' = [state |-> "fulfilled", value |-> items[selectionIndex + 1]]
                /\ resolveCalls' = 1
                /\ control' = "caller" /\ ~listening'
          /\ (lastEvent'.name = "escape" /\ promise.state = "pending")
             => /\ promise' = [state |-> "fulfilled", value |-> NoSelection]
                /\ resolveCalls' = 1
                /\ control' = "caller" /\ ~listening'
          /\ items' = items
          /\ promise.state = "fulfilled"
             => /\ promise' = promise
                /\ resolveCalls' = resolveCalls
                /\ lastEvent'.name \in KeyEvents
                     => /\ lastEvent'.name = "unheard"
                        /\ UNCHANGED <<selectionIndex, pageIndex, lastRenderLines,
                                       cleaned, listening, isRaw, control>>]_vars
    /\ [](control \notin {"idle", "fallback"} => resolveCalls <= 1)

\* Escape pressed after moving to a later page, and a key pressed afterwards
C18_Witness ==
    /\ Started
    /\ promise = [state |-> "fulfilled", value |-> NoSelection]
    /\ resolveCalls = 1
    /\ pageIndex > 0
    /\ lastEvent.name = "unheard"

\* Enter pressed on a later item
C18_WitnessEnter ==
    /\ Started
    /\ lastEvent.name = "enter"
    /\ selectionIndex > 0
    /\ promise = [state |-> "fulfilled", value |-> items[selectionIndex + 1]]

\* C19: the terminal's raw mode and keypress-listener state are restored to
\* the values they had before the selector ran before control leaves the
\* selector on every path: Enter, Escape, Ctrl-C (before the interrupt
\* signal is delivered), and when the item formatter or the favorite-toggle
\* callback throws.
C19_TerminalRestored ==
    control \in {"caller", "interrupted", "crashed"}
        => /\ isRaw = rawBefore
           /\ ~listening

C20_WitnessNoCallback ==
    /\ Started
    /\ onToggleFavorite = "absent"
    /\ lastEvent.name = "f" /\ lastEvent.invokedOn = <<>>
    /\ pendingToggles = 0

\* C21: selectFromPagedList called with an empty item list returns "no
\* selection" immediately, without entering raw mode, registering a
\* keypress listener or rendering a frame.
C21_EmptyListReturnsAtOnce ==
    (Len(items) = 0 /\ control # "idle")
        => /\ control = "caller"
           /\ promise = [state |-> "fulfilled", value |-> NoSelection]
           /\ isRaw = rawBefore
           /\ ~listening
           /\ lastRenderLines = 0
           /\ lastEvent.frames = 0

\* the empty list on a terminal that is not in raw mode
C21_Witness ==
    /\ Len(items) = 0
    /\ isTTY /\ ~rawBefore
    /\ control = "caller" /\ lastEvent.name = "start"
    /\ promise = [state |-> "fulfilled", value |-> NoSelection]

----------------------------------------------------------------------------
(* Favorites: the favorites store and favorite toggling of the interactive
   shell.  A choice is a project of the shell's lists; a record is an entry
   of the favorites collection. *)

DefaultProfile == <<"d", "e", "f", "a", "u", "l", "t">>

KeySeparator == <<":", ":", ":">>

\* favoriteKey: `${normalizedProfile}:::${projectRef}`
favoriteKey(projectRef, profile) ==
    LET normalizedProfile ==
            IF profile # Undefined /\ profile # <<>> /\ Trim(profile) # <<>>
            THEN Trim(profile)
            ELSE DefaultProfile
    IN normalizedProfile \o KeySeparator \o projectRef

FavoriteRecord(projectRef, profile) ==
    [projectRef |-> projectRef, profile |-> profile]

Choice(projectRef, profileName, isFavorite) ==
    [projectRef |-> projectRef, profileName |-> profileName,
     isFavorite |-> isFavorite]

RecordKey(record) == favoriteKey(record.projectRef, record.profile)

ChoiceKey(choice) == favoriteKey(choice.projectRef, choice.profileName)

\* new Set(favoriteRecords.map(record => favoriteKey(...)))
KeysOf(records) == {RecordKey(records[i]) : i \in 1..Len(records)}

\* normalizeFavoriteProfile: a string trimmed, undefined when nothing is left
normalizeFavoriteProfile(value) ==
    IF value = Undefined THEN Undefined
    ELSE IF Trim(value) # <<>> THEN Trim(value) ELSE Undefined

\* normalizeFavoriteRecord keeps an entry whose trimmed projectRef is not
\* empty; loadFavoriteProjects maps the entries and drops the others
RECURSIVE loadFavoriteProjects(_)
loadFavoriteProjects(file) ==
    IF file = <<>> THEN <<>>
    ELSE LET projectRef == Trim(Head(file).projectRef)
             rest == loadFavoriteProjects(Tail(file))
         IN IF projectRef = <<>> THEN rest
            ELSE <<FavoriteRecord(projectRef,
                                  normalizeFavoriteProfile(Head(file).profile))>>
                 \o rest

\* markFavoriteState: choice.isFavorite = favoriteSet.has(key), every choice
markFavoriteState(choices, keys) ==
    [i \in 1..Len(choices) |->
        Choice(choices[i].projectRef, choices[i].profileName,
               ChoiceKey(choices[i]) \in keys)]

\* A choice of a list is the object at a position of `projects' (at > 0) or
\* an object built for a favorite that is not among the projects (at = 0).
NoChoice == Choice(<<>>, Undefined, FALSE)

Listed(at) == [at |-> at, choice |-> NoChoice]

Detached(choice) == [at |-> 0, choice |-> choice]

NoSelected == Detached(NoChoice)

\* the object a list entry refers to, read in the list of projects given
ChoiceOf(entry, choices) ==
    IF entry.at > 0 THEN choices[entry.at] ELSE entry.choice

\* buildFavoriteChoiceList: choiceMap keeps the last project of a key; a
\* record takes that project, or a new choice that has a profileName only
\* when the record's profile is truthy
buildFavoriteChoiceList(records, choices) ==
    [i \in 1..Len(records) |->
        LET same == {j \in 1..Len(choices) :
                        ChoiceKey(choices[j]) = RecordKey(records[i])}
        IN IF same # {}
           THEN Listed(CHOOSE j \in same : \A k \in same : k <= j)
           ELSE Detached(Choice(records[i].projectRef,
                                IF records[i].profile = <<>>
                                THEN Undefined ELSE records[i].profile,
                                TRUE))]

\* favoriteChoices is assigned with favoriteSet wherever favoriteRecords or
\* projects is (refreshProjects, persistFavorites): it is this list throughout
favoriteChoices == buildFavoriteChoiceList(favoriteRecords, projects)

\* favoriteRecords.filter(record => favoriteKey(...) !== key)
RECURSIVE WithoutKey(_, _)
WithoutKey(records, key) ==
    IF records = <<>> THEN <<>>
    ELSE IF RecordKey(Head(records)) = key
         THEN WithoutKey(Tail(records), key)
         ELSE <<Head(records)>> \o WithoutKey(Tail(records), key)

\* toggleFavorite builds the next collection: the key filtered out, and the
\* choice pushed when it was not a favorite
toggledRecords_KeepsOthers(choice, records, keys) ==
    IF ChoiceKey(choice) \in keys
    THEN WithoutKey(records, ChoiceKey(choice))
    ELSE records

toggledRecords(choice, records, keys) ==
    LET filtered == WithoutKey(records, ChoiceKey(choice))
    IN IF ChoiceKey(choice) \in keys
       THEN filtered
       ELSE Append(filtered,
                   FavoriteRecord(choice.projectRef, choice.profileName))

\* what toggleFavorite reads and writes: the favorites file, favoriteRecords,
\* favoriteSet and the projects with their flags
Favorites(file, records, keys, choices) ==
    [file |-> file, records |-> records, keys |-> keys, projects |-> choices]

\* toggleFavorite(choice) for the choice a list entry refers to; saved is
\* whether saveFavoriteProjects returned.  persistFavorites assigns
\* favoriteRecords and favoriteSet and marks the projects before it saves;
\* choice.isFavorite = !isFavorite runs only when it returned.  The result
\* holds the entry too, with the flag of a choice not among the projects.
toggleFavorite(state, entry, saved) ==
    LET choice == ChoiceOf(entry, state.projects)
        isFavorite == ChoiceKey(choice) \in state.keys
        records == toggledRecords(choice, state.records, state.keys)
        marked == markFavoriteState(state.projects, KeysOf(records))
        flagged == IF saved
                   THEN Choice(choice.projectRef, choice.profileName,
                               ~isFavorite)
                   ELSE ChoiceOf(entry, marked)
    IN [file |-> IF saved THEN records ELSE state.file,
        records |-> records,
        keys |-> KeysOf(records),
        projects |-> IF entry.at > 0
                     THEN [marked EXCEPT ![entry.at] = flagged]
                     ELSE marked,
        entry |-> IF entry.at > 0 THEN entry ELSE Detached(flagged)]

----------------------------------------------------------------------------
(* The interactive shell: merge requests and the mergeable filter.
   A field of a merge request is a string; "undefined" and "null" stand for
   the field being absent or null, and iid is the field's typeof. *)

MergeRequest(wip, draft, status, detailed, iid) ==
    [work_in_progress |-> wip, draft |-> draft, merge_status |-> status,
     detailed_merge_status |-> detailed, iid |-> iid]

Nullish(value) == value \in {"undefined", "null"}

\* JavaScript truthiness of a field: a set flag, a string that is not empty
TruthyField(value) == ~Nullish(value) /\ value \notin {"", "false"}

\* mr.merge_status ?? mr.detailed_merge_status
mergeStatusOf(mr) ==
    IF Nullish(mr.merge_status)
    THEN mr.detailed_merge_status
    ELSE mr.merge_status

\* the filter without its first test
isMergeRequestMergeable_DraftsPass(mr) ==
    /\ ~(TruthyField(mergeStatusOf(mr)) /\ mergeStatusOf(mr) # "can_be_merged")
    /\ mr.iid = "number"

isMergeRequestMergeable(mr) ==
    IF TruthyField(mr.work_in_progress) \/ TruthyField(mr.draft)
    THEN FALSE
    ELSE IF TruthyField(mergeStatusOf(mr))
            /\ mergeStatusOf(mr) # "can_be_merged"
         THEN FALSE
         ELSE mr.iid = "number"

\* mergeRequests.filter(isMergeRequestMergeable)
RECURSIVE Mergeable(_)
Mergeable(mergeRequests) ==
    IF mergeRequests = <<>> THEN <<>>
    ELSE IF isMergeRequestMergeable(Head(mergeRequests))
         THEN <<Head(mergeRequests)>> \o Mergeable(Tail(mergeRequests))
         ELSE Mergeable(Tail(mergeRequests))

\* the lists of at most n elements of a listing, in the order of the listing
RECURSIVE Sublists(_, _)
Sublists(listing, n) ==
    IF listing = <<>> \/ n = 0 THEN {<<>>}
    ELSE Sublists(Tail(listing), n)
         \cup {<<Head(listing)>> \o rest : rest \in Sublists(Tail(listing), n - 1)}

\* the merge requests a project's listing can hold, one for each case of
\* the filter
MergeRequestShapes ==
    <<MergeRequest("false", "false", "can_be_merged", "undefined", "number"),
     MergeRequest("undefined", "undefined", "null", "undefined", "number"),
     MergeRequest("true", "false", "can_be_merged", "undefined", "number"),
     MergeRequest("undefined", "true", "can_be_merged", "mergeable", "number"),
     MergeRequest("false", "false", "cannot_be_merged", "undefined", "number"),
     MergeRequest("false", "false", "null", "not_approved", "number"),
     MergeRequest("false", "false", "undefined", "can_be_merged", "number"),
     MergeRequest("false", "false", "", "not_approved", "number"),
     MergeRequest("false", "false", "can_be_merged", "not_approved", "number"),
     MergeRequest("false", "false", "can_be_merged", "undefined", "undefined"),
     MergeRequest("false", "false", "can_be_merged", "undefined", "string")>>

MaxFetched == 2

MergeRequestLists(n) == Sublists(MergeRequestShapes, n)

NoMergeRequest ==
    MergeRequest("undefined", "undefined", "undefined", "undefined", "none")

----------------------------------------------------------------------------
(* The interactive shell: launchInteractiveHome.  Each action is the code
   that runs from one prompt's answer to the next prompt. *)

MaxFavorites == 2

FileProjectRefs == {<<"1">>, <<" ">>}

FileProfiles == {Undefined, <<"w">>, <<" ", "w">>, DefaultProfile}

\* the entries a favorites file holds when the shell is launched
FavoriteFiles(n) ==
    UNION {[1..k -> {FavoriteRecord(ref, profile) :
                        ref \in FileProjectRefs, profile \in FileProfiles}]
           : k \in 0..n}

\* the favorites files of the sessions in which merge requests are acted on
ShellFavoriteFiles ==
    {<<>>, <<FavoriteRecord(<<"1">>, <<"w">>)>>}

\* what collectRecentProjects returns: the projects of the profiles
Discovered ==
    {<<>>,
     <<Choice(<<"1">>, Undefined, FALSE)>>,
     <<Choice(<<"1">>, DefaultProfile, FALSE), Choice(<<"1">>, <<"w">>, FALSE)>>}

\* what a step did: the prompt answered or the call that settled, how, and
\* the number of merge requests a listing returned
ShellEvent(prompt, answer, fetched) ==
    [prompt |-> prompt, answer |-> answer, fetched |-> fetched]

Answered(prompt, answer) == ShellEvent(prompt, answer, 0)

ShellBefore(file) ==
    /\ shellAt = "start"
    /\ pool = <<>>
    /\ selectedProject = NoSelected
    /\ action = "none"
    /\ candidates = <<>>
    /\ mergeRequest = NoMergeRequest
    /\ answers = <<>>
    /\ favoritesFile = file
    /\ favoriteRecords = <<>>
    /\ favoriteSet = {}
    /\ projects = <<>>
    /\ shellEvent = Answered("none", "none")
    /\ ShellAlone

InitShell == \E file \in ShellFavoriteFiles : ShellBefore(file)

favoritesVars ==
    <<favoritesFile, favoriteRecords, favoriteSet, projects>>

\* where the shell is: the prompt, and the locals of the loops around it
At(prompt, chosen, act, offered, mr, given) ==
    /\ shellAt' = prompt
    /\ selectedProject' = chosen
    /\ action' = act
    /\ candidates' = offered
    /\ mergeRequest' = mr
    /\ answers' = given

AtListMode == At("listMode", NoSelected, "none", <<>>, NoMergeRequest, <<>>)

\* a cancelled prompt leaving the function
AtActionMenu_Leaves ==
    At("ended", NoSelected, "none", <<>>, NoMergeRequest, <<>>)

\* continue in the inner loop: promptRepoActionMenu(selection) again
AtActionMenu ==
    At("actionMenu", selectedProject, "none", <<>>, NoMergeRequest, <<>>)

\* the function returns (true or false), or an exception or a signal ends it
Left(how) == At(how, NoSelected, "none", <<>>, NoMergeRequest, <<>>)

\* refreshProjects: the projects collected and marked against the favorites
refreshProjects(discovered) ==
    /\ projects' = markFavoriteState(discovered, KeysOf(favoriteRecords'))
    /\ favoriteSet' = KeysOf(favoriteRecords')

\* launchInteractiveHome up to the first prompt
Launch ==
    /\ shellAt = "start"
    /\ \E isInteractiveSession \in BOOLEAN, discovered \in Discovered :
          IF ~isInteractiveSession
          THEN /\ Left("declined")
               /\ UNCHANGED <<pool, favoritesVars>>
          ELSE /\ favoriteRecords' = loadFavoriteProjects(favoritesFile)
               /\ refreshProjects(discovered)
               /\ IF discovered = <<>> THEN Left("declined") ELSE AtListMode
               /\ UNCHANGED <<pool, favoritesFile>>
    /\ shellEvent' = Answered("none", "launch")
    /\ UNCHANGED outsideShell

ListModeAnswers == {"all", "favorites", "profiles", "cancel", "escape", "throw"}

\* promptRepoListMode and the head of the outer loop
AnswerListMode ==
    /\ shellAt = "listMode"
    /\ \E answer \in ListModeAnswers :
        /\ shellEvent' = Answered("listMode", answer)
        /\ CASE answer \in {"cancel", "escape"} ->
                  /\ Left("ended")
                  /\ UNCHANGED <<pool, favoritesVars>>
             [] answer = "throw" ->
                  /\ Left("failed")
                  /\ UNCHANGED <<pool, favoritesVars>>
             [] answer = "profiles" ->
                  \E discovered \in Discovered :
                      /\ UNCHANGED <<pool, favoritesFile, favoriteRecords>>
                      /\ refreshProjects(discovered)
                      /\ AtListMode
             [] answer = "favorites" ->
                  /\ UNCHANGED favoritesVars
                  /\ IF favoriteChoices = <<>>
                     THEN AtListMode /\ UNCHANGED pool
                     ELSE /\ pool' = favoriteChoices
                          /\ At("projectSelect", NoSelected, "none", <<>>,
                                NoMergeRequest, <<>>)
             [] answer = "all" ->
                  /\ UNCHANGED favoritesVars
                  /\ IF projects = <<>>
                     THEN Left("ended") /\ UNCHANGED pool
                     ELSE /\ pool' = [i \in 1..Len(projects) |-> Listed(i)]
                          /\ At("projectSelect", NoSelected, "none", <<>>,
                                NoMergeRequest, <<>>)
    /\ UNCHANGED outsideShell

\* toggleFavorite(choice) in the shell, for the choice a list entry refers
\* to; saved is whether saveFavoriteProjects returned
ToggleFavorite(entry, saved) ==
    LET next == toggleFavorite(Favorites(favoritesFile, favoriteRecords,
                                         favoriteSet, projects),
                               entry, saved)
    IN /\ favoritesFile' = next.file
       /\ favoriteRecords' = next.records
       /\ favoriteSet' = next.keys
       /\ projects' = next.projects

Flagged(entry, saved) ==
    toggleFavorite(Favorites(favoritesFile, favoriteRecords, favoriteSet,
                             projects),
                   entry, saved).entry

\* promptProjectSelection: the paged selector over the pool, whose f key
\* runs toggleFavorite on the highlighted project and shows a warning when
\* that fails
AnswerProjectSelection ==
    /\ shellAt = "projectSelect"
    /\ \/ \E i \in 1..Len(pool), saved \in BOOLEAN :
            /\ ToggleFavorite(pool[i], saved)
            /\ pool' = [pool EXCEPT ![i] = Flagged(pool[i], saved)]
            /\ UNCHANGED <<shellAt, selectedProject, action, candidates,
                           mergeRequest, answers>>
            /\ shellEvent' = Answered("projectSelect", "f")
       \/ \E i \in 1..Len(pool) :
            /\ At("actionMenu", pool[i], "none", <<>>, NoMergeRequest, <<>>)
            /\ shellEvent' = Answered("projectSelect", "select")
            /\ pool' = <<>>
            /\ UNCHANGED favoritesVars
       \/ /\ AtListMode
          /\ shellEvent' = Answered("projectSelect", "escape")
          /\ pool' = <<>>
          /\ UNCHANGED favoritesVars
       \/ /\ Left("failed")
          /\ shellEvent' = Answered("projectSelect", "throw")
          /\ pool' = <<>>
          /\ UNCHANGED favoritesVars
    /\ UNCHANGED outsideShell

ActionMenuAnswers ==
    {"comment", "merge", "toggle", "back", "cancel", "escape", "throw"}

\* promptRepoActionMenu and the inner loop down to the call of
\* fetchMergeRequestsForChoice in promptMergeRequestSelection
AnswerActionMenu ==
    /\ shellAt = "actionMenu"
    /\ \E answer \in ActionMenuAnswers :
        CASE answer \in {"back", "escape"} ->
                /\ AtListMode
                /\ shellEvent' = Answered("actionMenu", answer)
                /\ UNCHANGED <<pool, favoritesVars>>
          [] answer = "cancel" ->
                /\ Left("ended")
                /\ shellEvent' = Answered("actionMenu", answer)
                /\ UNCHANGED <<pool, favoritesVars>>
          [] answer = "throw" ->
                /\ Left("failed")
                /\ shellEvent' = Answered("actionMenu", answer)
                /\ UNCHANGED <<pool, favoritesVars>>
          [] answer = "toggle" ->
                \E saved \in BOOLEAN :
                    /\ ToggleFavorite(selectedProject, saved)
                    /\ shellEvent' = Answered("actionMenu", answer)
                    /\ UNCHANGED pool
                    /\ IF saved
                       THEN At("actionMenu", Flagged(selectedProject, saved),
                               "none", <<>>, NoMergeRequest, <<>>)
                       ELSE Left("failed")
          [] answer \in {"comment", "merge"} ->
                /\ At("fetching", selectedProject, answer, <<>>,
                      NoMergeRequest, <<>>)
                /\ shellEvent' = Answered("actionMenu", answer)
                /\ UNCHANGED <<pool, favoritesVars>>
    /\ UNCHANGED outsideShell

\* promptMergeRequestSelection once the listing has settled: it throws, or
\* it is filtered and, when nothing is left, undefined is returned without
\* a prompt
MergeRequestsFetched ==
    /\ shellAt = "fetching"
    /\ \/ /\ Left("failed")
          /\ shellEvent' = Answered("fetching", "rejected")
       \/ \E mergeRequests \in MergeRequestLists(MaxFetched) :
            /\ shellEvent' = ShellEvent("fetching", "fulfilled",
                                        Len(mergeRequests))
            /\ IF Mergeable(mergeRequests) = <<>>
               THEN AtActionMenu
               ELSE At("mergeRequestSelect", selectedProject, action,
                       Mergeable(mergeRequests), NoMergeRequest, <<>>)
    /\ UNCHANGED <<pool, favoritesVars, outsideShell>>

\* selectFromPagedList(candidates, ...) in promptMergeRequestSelection
AnswerMergeRequestSelection ==
    /\ shellAt = "mergeRequestSelect"
    /\ \/ \E i \in 1..Len(candidates) :
            /\ At(IF action = "comment" THEN "commentBody" ELSE "squash",
                  selectedProject, action, <<>>, candidates[i], <<>>)
            /\ shellEvent' = Answered("mergeRequestSelect", "select")
       \/ /\ AtActionMenu
          /\ shellEvent' = Answered("mergeRequestSelect", "escape")
       \/ /\ Left("failed")
          /\ shellEvent' = Answered("mergeRequestSelect", "throw")
    /\ UNCHANGED <<pool, favoritesVars, outsideShell>>

\* the command handler is called with the merge request and the answers
CallHandler(prompt, answer, given) ==
    /\ At("handler", selectedProject, action, <<>>, mergeRequest, given)
    /\ shellEvent' = Answered(prompt, answer)

\* handleCommentFlow: promptCommentBody, then runCommentWorkflow
AnswerCommentBody ==
    /\ shellAt = "commentBody"
    /\ \/ \E message \in {"typed", "default"} :
            CallHandler("commentBody", "text", <<message>>)
       \/ /\ AtActionMenu
          /\ shellEvent' = Answered("commentBody", "escape")
       \/ /\ Left("failed")
          /\ shellEvent' = Answered("commentBody", "throw")
    /\ UNCHANGED <<pool, favoritesVars, outsideShell>>

YesNo == {"yes", "no"}

\* a promptYesNo whose cancellation is taken for an answer
AnswerYesNo_CancelIgnored(prompt, next) ==
    \/ \E answer \in YesNo :
         /\ At(next, selectedProject, action, <<>>, mergeRequest,
               Append(answers, answer))
         /\ shellEvent' = Answered(prompt, answer)
    \/ /\ At(next, selectedProject, action, <<>>, mergeRequest, answers)
       /\ shellEvent' = Answered(prompt, "escape")
    \/ /\ Left("failed")
       /\ shellEvent' = Answered(prompt, "throw")

\* a promptYesNo of handleMergeFlow that another prompt follows
AnswerYesNo(prompt, next) ==
    \/ \E answer \in YesNo :
         /\ At(next, selectedProject, action, <<>>, mergeRequest,
               Append(answers, answer))
         /\ shellEvent' = Answered(prompt, answer)
    \/ /\ AtActionMenu
       /\ shellEvent' = Answered(prompt, "escape")
    \/ /\ Left("failed")
       /\ shellEvent' = Answered(prompt, "throw")

AnswerSquash ==
    /\ shellAt = "squash"
    /\ AnswerYesNo("squash", "removeSourceBranch")
    /\ UNCHANGED <<pool, favoritesVars, outsideShell>>

AnswerRemoveSourceBranch ==
    /\ shellAt = "removeSourceBranch"
    /\ AnswerYesNo("removeSourceBranch", "mwps")
    /\ UNCHANGED <<pool, favoritesVars, outsideShell>>

\* the last promptYesNo of handleMergeFlow, then runMergeWorkflow
AnswerMwps ==
    /\ shellAt = "mwps"
    /\ \/ \E answer \in YesNo :
            CallHandler("mwps", answer, Append(answers, answer))
       \/ /\ AtActionMenu
          /\ shellEvent' = Answered("mwps", "escape")
       \/ /\ Left("failed")
          /\ shellEvent' = Answered("mwps", "throw")
    /\ UNCHANGED <<pool, favoritesVars, outsideShell>>

\* runCommentWorkflow or runMergeWorkflow returns, or throws out of the shell
HandlerSettled ==
    /\ shellAt = "handler"
    /\ \/ /\ AtActionMenu
          /\ shellEvent' = Answered("handler", "fulfilled")
       \/ /\ Left("failed")
          /\ shellEvent' = Answered("handler", "rejected")
    /\ UNCHANGED <<pool, favoritesVars, outsideShell>>

NextShell ==
    \/ Launch
    \/ AnswerListMode
    \/ AnswerProjectSelection
    \/ AnswerActionMenu
    \/ MergeRequestsFetched
    \/ AnswerMergeRequestSelection
    \/ AnswerCommentBody
    \/ AnswerSquash
    \/ AnswerRemoveSourceBranch
    \/ AnswerMwps
    \/ HandlerSettled

SpecShell == InitShell /\ [][NextShell]_vars

----------------------------------------------------------------------------
(* Claims about the interactive shell *)

ParameterPrompts == {"commentBody", "squash", "removeSourceBranch", "mwps"}

SessionOver == {"ended", "failed", "declined"}

\* C22: Escape at any prompt but the list-mode prompt returns to the nearest
\* enclosing menu and never ends the session: from the project selector to
\* list mode, from the action menu (as 'back') to the choice of the
\* repository list, from the merge-request selector or a parameter prompt to
\* the action menu; cancelling the list-mode prompt ends the session.
C22_EscapeReturnsToEnclosingMenu ==
    [][/\ shellEvent'.answer = "escape" =>
            /\ shellAt = "projectSelect" => shellAt' = "listMode"
            /\ shellAt = "actionMenu" => shellAt' = "listMode"
            /\ shellAt \in {"mergeRequestSelect"} \cup ParameterPrompts =>
                   /\ shellAt' = "actionMenu"
                   /\ selectedProject' = selectedProject
            /\ shellAt # "listMode" => shellAt' \notin SessionOver
       /\ (shellAt = "listMode" /\ shellEvent'.answer \in {"escape", "cancel"})
             => shellAt' = "ended"]_vars

\* Escape pressed at the last parameter prompt of a merge
C22_Witness ==
    /\ shellEvent = Answered("mwps", "escape")
    /\ shellAt = "actionMenu"

\* Escape pressed in the action menu
C22_WitnessBack ==
    /\ shellEvent = Answered("actionMenu", "escape")
    /\ shellAt = "listMode"

\* Escape pressed at the list-mode prompt
C22_WitnessEnds ==
    /\ shellEvent = Answered("listMode", "escape")
    /\ shellAt = "ended"

AnswersComplete(act, given) ==
    /\ act = "comment" => Len(given) = 1
    /\ act = "merge" => Len(given) = 3 /\ \A i \in 1..3 : given[i] \in YesNo

\* C23: a command handler is invoked only after a merge request has been
\* selected and every parameter prompt of the action has been answered; a
\* cancelled merge-request selection or parameter prompt runs no handler; and
\* after a cancelled or a completed action the shell is at the action menu
\* of the same project.
C23_HandlerOnlyAfterAllAnswers ==
    [][/\ shellAt' = "handler" =>
            /\ shellAt \in {"commentBody", "mwps"}
            /\ shellEvent'.answer # "escape"
            /\ action' \in {"comment", "merge"}
            /\ mergeRequest # NoMergeRequest
            /\ mergeRequest' = mergeRequest
            /\ AnswersComplete(action', answers')
       /\ (/\ shellAt \in {"mergeRequestSelect"} \cup ParameterPrompts
           /\ shellEvent'.answer = "escape")
             => /\ shellAt' = "actionMenu"
                /\ selectedProject' = selectedProject
       /\ (shellAt = "handler" /\ shellEvent'.answer = "fulfilled")
             => /\ shellAt' = "actionMenu"
                /\ selectedProject' = selectedProject]_vars

\* runMergeWorkflow has been called with the three answers
C23_Witness ==
    /\ shellAt = "handler"
    /\ action = "merge"
    /\ Len(answers) = 3

\* the action menu again after a handler returned
C23_WitnessCompleted ==
    /\ shellAt = "actionMenu"
    /\ shellEvent = Answered("handler", "fulfilled")

\* the action menu again after the second merge prompt was cancelled
C23_WitnessCancelled ==
    /\ shellAt = "actionMenu"
    /\ shellEvent = Answered("removeSourceBranch", "escape")

\* the merge status of a merge request: merge_status, and
\* detailed_merge_status when that is absent; unknown when nothing is there
MergeStatus(mr) ==
    IF mr.merge_status \in {"undefined", "null"}
    THEN mr.detailed_merge_status
    ELSE mr.merge_status

PassesMergeableFilter(mr) ==
    /\ mr.work_in_progress # "true"
    /\ mr.draft # "true"
    /\ MergeStatus(mr) \in {"undefined", "null", "", "can_be_merged"}
    /\ mr.iid = "number"

\* C24: every merge request offered by the merge-request selector, and every
\* merge request passed to a command handler, is neither work-in-progress nor
\* draft, has a merge status that is unknown or can_be_merged, and has a
\* numeric IID.
C24_OnlyMergeableOffered ==
    /\ shellAt # NotRunning =>
          \A i \in 1..Len(candidates) : PassesMergeableFilter(candidates[i])
    /\ shellAt \in ParameterPrompts \cup {"handler"} =>
          PassesMergeableFilter(mergeRequest)

\* the selector offers fewer merge requests than the listing returned
C24_Witness ==
    /\ shellAt = "mergeRequestSelect"
    /\ Len(candidates) > 0
    /\ shellEvent.fetched > Len(candidates)

\* a merge request of unknown merge status is passed to a handler
C24_WitnessHandler ==
    /\ shellAt = "handler"
    /\ mergeRequest.merge_status = "null"

----------------------------------------------------------------------------
(* Favorite toggling on its own: toggleFavorite called repeatedly on one
   choice, from every favorites file and list of projects *)

\* the favorite keys in memory and in the file as it is read back, and the
\* flag of the choice
Snapshot(state, entry) ==
    [memory |-> state.keys,
     persisted |-> KeysOf(loadFavoriteProjects(state.file)),
     isFavorite |-> ChoiceOf(entry, state.projects).isFavorite]

\* the choices of the two lists of the shell
Entries(state) ==
    {Listed(i) : i \in 1..Len(state.projects)}
    \cup {buildFavoriteChoiceList(state.records, state.projects)[i] :
             i \in 1..Len(state.records)}

\* the shell after refreshProjects
Loaded(file, discovered) ==
    LET records == loadFavoriteProjects(file)
    IN Favorites(file, records, KeysOf(records),
                 markFavoriteState(discovered, KeysOf(records)))

InitToggles ==
    /\ \E file \in FavoriteFiles(MaxFavorites), discovered \in Discovered :
          /\ favorites = Loaded(file, discovered)
          /\ toggled \in Entries(Loaded(file, discovered))
    /\ lastToggles = <<>>
    /\ TogglesAlone

\* toggleFavorite(choice) run to its end
ToggleAgain ==
    /\ \E saved \in BOOLEAN :
          LET next == toggleFavorite(favorites, toggled, saved)
          IN /\ favorites' = Favorites(next.file, next.records, next.keys,
                                       next.projects)
             /\ toggled' = next.entry
             /\ lastToggles' =
                    (IF lastToggles = <<>> THEN <<>>
                     ELSE <<lastToggles[Len(lastToggles)]>>)
                    \o <<[saved |-> saved,
                          before |-> Snapshot(favorites, toggled)]>>
    /\ UNCHANGED outsideToggles

NextToggles == ToggleAgain

SpecToggles == InitToggles /\ [][NextToggles]_vars

\* two runs of toggleFavorite in succession, both saved, that started from
\* one favorites collection: the one in memory is the one of the file
ToggledTwice ==
    /\ lastToggles # NotRunning
    /\ Len(lastToggles) = 2
    /\ lastToggles[1].saved
    /\ lastToggles[2].saved
    /\ lastToggles[1].before.memory = lastToggles[1].before.persisted

\* C25: toggleFavorite run twice in succession on the same choice leaves the
\* set of favorite keys, in memory and in the persisted collection, and the
\* choice's isFavorite flag as they were before the first run, for every
\* starting favorites collection and every choice.
C25_ToggleTwiceRestores ==
    ToggledTwice => Snapshot(favorites, toggled) = lastToggles[1].before

\* toggled twice, the choice a favorite before, with another record of its
\* key in the collection
C25_Witness ==
    /\ ToggledTwice
    /\ lastToggles[1].before.isFavorite
    /\ Len(favorites.records) < Len(loadFavoriteProjects(favorites.file)) + 1
    /\ Cardinality(lastToggles[1].before.memory) = 2

\* toggled twice, the choice not a favorite before
C25_WitnessAdded ==
    /\ ToggledTwice
    /\ ~lastToggles[1].before.isFavorite

----------------------------------------------------------------------------
(* Project discovery: collectRecentProjects over several profiles, whose
   Projects.all calls run concurrently and settle in any order *)

MaxProfiles == 2

MaxProjects == 2

SdkNames == <<<<"a">>, <<"b">>, <<"c">>, <<"d">>>>

\* a project of a listing: its id, or its path when it has no numeric id,
\* and the time of its last activity
Project(ref, lastActivity) == [ref |-> ref, lastActivity |-> lastActivity]

ProjectShapes == {Project(<<"1">>, 1), Project(<<"g", "/", "p">>, 2)}

ProjectLists(n) == UNION {[1..k -> ProjectShapes] : k \in 0..n}

Call(state, listed) == [state |-> state, projects |-> listed]

RecentChoice(project, name) ==
    [projectRef |-> project.ref, lastActivity |-> project.lastActivity,
     profileName |-> name]

\* projects.forEach(... choices.push({..., profileName: name}))
ChoicesOf(listed, name) ==
    [i \in 1..Len(listed) |-> RecentChoice(listed[i], name)]

\* choices.sort((a, b) => bTime - aTime): stable, latest activity first
RECURSIVE InsertByActivity(_, _)
InsertByActivity(sorted, choice) ==
    IF sorted = <<>> THEN <<choice>>
    ELSE IF Head(sorted).lastActivity >= choice.lastActivity
         THEN <<Head(sorted)>> \o InsertByActivity(Tail(sorted), choice)
         ELSE <<choice>> \o sorted

RECURSIVE SortByActivity(_)
SortByActivity(list) ==
    IF list = <<>> THEN <<>>
    ELSE InsertByActivity(SortByActivity(SubSeq(list, 1, Len(list) - 1)),
                          list[Len(list)])

NotCollected == [returned |-> FALSE, choices |-> <<>>]

\* createGitlabSdksForProfiles has returned; sdks.map starts every call
InitDiscovery ==
    /\ \E n \in 0..MaxProfiles : sdks = SubSeq(SdkNames, 1, n)
    /\ listings = [i \in 1..Len(sdks) |-> Call("pending", <<>>)]
    /\ recentChoices = <<>>
    /\ warned = <<>>
    /\ collected = NotCollected
    /\ DiscoveryAlone

Collecting == sdks # NotRunning /\ ~collected.returned

\* a rejected listing that rejects Promise.all
WhenRejected_Aborts(i) ==
    /\ warned' = Append(warned, sdks[i])
    /\ collected' = [returned |-> TRUE, choices |-> <<>>]
    /\ UNCHANGED recentChoices

\* catch (error): logger.warn(`${prefix} Failed to load recent projects`)
WhenRejected(i) ==
    /\ warned' = Append(warned, sdks[i])
    /\ UNCHANGED <<recentChoices, collected>>

\* the Projects.all call of one profile is rejected
ListingRejected ==
    /\ Collecting
    /\ \E i \in 1..Len(sdks) :
          /\ listings[i].state = "pending"
          /\ listings' = [listings EXCEPT ![i] = Call("rejected", <<>>)]
          /\ WhenRejected(i)
    /\ UNCHANGED <<sdks, outsideDiscovery>>

\* the Projects.all call of one profile is fulfilled and its projects pushed
ListingFulfilled ==
    /\ Collecting
    /\ \E i \in 1..Len(sdks), listed \in ProjectLists(MaxProjects) :
          /\ listings[i].state = "pending"
          /\ listings' = [listings EXCEPT ![i] = Call("fulfilled", listed)]
          /\ recentChoices' = recentChoices \o ChoicesOf(listed, sdks[i])
    /\ UNCHANGED <<sdks, warned, collected, outsideDiscovery>>

\* Promise.all is fulfilled (or sdks is empty): choices.sort, return choices
ReturnChoices ==
    /\ Collecting
    /\ \A i \in 1..Len(sdks) : listings[i].state # "pending"
    /\ collected' = [returned |-> TRUE,
                     choices |-> SortByActivity(recentChoices)]
    /\ UNCHANGED <<sdks, listings, recentChoices, warned, outsideDiscovery>>

NextDiscovery ==
    \/ ListingRejected
    \/ ListingFulfilled
    \/ ReturnChoices

SpecDiscovery == InitDiscovery /\ [][NextDiscovery]_vars

Occurrences(list, x) == Cardinality({i \in 1..Len(list) : list[i] = x})

\* the choices of the profiles whose listing was fulfilled
ExpectedOccurrences(choice) ==
    LET counts == [i \in 1..Len(sdks) |->
                      IF listings[i].state = "fulfilled"
                      THEN Occurrences(ChoicesOf(listings[i].projects,
                                                 sdks[i]), choice)
                      ELSE 0]
        sum[k \in 0..Len(sdks)] ==
            IF k = 0 THEN 0 ELSE sum[k - 1] + counts[k]
    IN sum[Len(sdks)]

AllChoices ==
    {RecentChoice(project, sdks[i]) :
        project \in ProjectShapes, i \in 1..Len(sdks)}

\* C26: a profile whose project listing fails logs a warning and contributes
\* no choices, and neither aborts nor alters the others: whatever the order
\* in which the calls settle, the choices returned are exactly the projects
\* of the profiles whose listing succeeded.
C26_FailuresAreIsolated ==
    (sdks # NotRunning /\ collected.returned) =>
        /\ \A i \in 1..Len(sdks) : listings[i].state # "pending"
        /\ \A choice \in AllChoices :
              Occurrences(collected.choices, choice)
                  = ExpectedOccurrences(choice)
        /\ Len(collected.choices) = Len(recentChoices)
        /\ \A i \in 1..Len(sdks) :
              Occurrences(warned, sdks[i])
                  = IF listings[i].state = "rejected" THEN 1 ELSE 0

\* the first profile's listing failed, the second one's gave two projects
C26_Witness ==
    /\ collected.returned
    /\ Len(sdks) >= 2
    /\ listings[1].state = "rejected"
    /\ listings[2].state = "fulfilled"
    /\ Len(collected.choices) = 2
    /\ warned = <<sdks[1]>>

----------------------------------------------------------------------------
(* The commands comment, merge, list and review-assigned: option parsing *)

ToLowerCase(c) ==
    IF \E i \in 1..Len(UpperCase) : UpperCase[i] = c
    THEN LowerCase[CHOOSE i \in 1..Len(UpperCase) : UpperCase[i] = c]
    ELSE c

Lowered(s) == [i \in 1..Len(s) |-> ToLowerCase(s[i])]

Word_all == <<"a", "l", "l">>

Word_opened == <<"o", "p", "e", "n", "e", "d">>

Word_closed == <<"c", "l", "o", "s", "e", "d">>

Word_locked == <<"l", "o", "c", "k", "e", "d">>

Word_merged == <<"m", "e", "r", "g", "e", "d">>

Word_undefined == <<"u", "n", "d", "e", "f", "i", "n", "e", "d">>

MR_STATES == {Word_opened, Word_closed, Word_locked, Word_merged}

\* what a parser returns: a value, or the error it throws
Parsed(value) == [threw |-> FALSE, value |-> value]

Invalid == [threw |-> TRUE, value |-> <<>>]

\* normalizeStateOption accepting any value
\* normalizeStateOption: 'opened' for no value, undefined (here <<>>) for
\* 'all', an Error for a value that is not a state
normalizeStateOption(value) ==
    IF value = Undefined \/ value = <<>> \/ value = Word_undefined
    THEN Parsed(Word_opened)
    ELSE IF Lowered(value) = Word_all THEN Parsed(<<>>)
    ELSE IF Lowered(value) \notin MR_STATES THEN Invalid
    ELSE Parsed(Lowered(value))

DigitValue(c) ==
    CASE c = "0" -> 0 [] c = "1" -> 1 [] c = "2" -> 2 [] c = "3" -> 3
      [] c = "4" -> 4 [] c = "5" -> 5 [] c = "6" -> 6 [] c = "7" -> 7
      [] c = "8" -> 8 [] c = "9" -> 9

NaN == -1

\* Number.parseInt(s, 10) for a string without a sign: the value of its
\* leading digits after leading white space, NaN when there is none
RECURSIVE LeadingDigits(_, _)
LeadingDigits(s, value) ==
    IF s = <<>> \/ Head(s) \notin Digits THEN value
    ELSE LeadingDigits(Tail(s), value * 10 + DigitValue(Head(s)))

parseInt(s) ==
    LET t == TrimStart(s)
    IN IF t = <<>> \/ Head(t) \notin Digits THEN NaN
       ELSE LeadingDigits(t, 0)

\* parseMergeRequestIid: value.trim().replace(/^!/, ''), parseInt, and an
\* Error unless the result is finite and positive
parseMergeRequestIid(value) ==
    LET trimmed == Trim(value)
        normalized == IF trimmed # <<>> /\ Head(trimmed) = "!"
                      THEN Tail(trimmed) ELSE trimmed
        iid == parseInt(normalized)
    IN IF iid = NaN \/ iid <= 0 THEN Invalid ELSE Parsed(iid)

\* body.includes(expectedBody)
Includes(body, expected) ==
    \E i \in 0..(Len(body) - Len(expected)) :
        SubSeq(body, i + 1, i + Len(expected)) = expected

----------------------------------------------------------------------------
(* The commands: what they do with GitLab.  A step runs from one awaited
   GitLab call to the next. *)

DEFAULT_COMMENT_BODY == <<"r", "e", "v", "i", "e", "w", ":", " ", "o", "k">>

\* normalizeCommentBody: comment?.trim(), the default when nothing is left
normalizeCommentBody(comment) ==
    IF comment # Undefined /\ Trim(comment) # <<>>
    THEN Trim(comment)
    ELSE DEFAULT_COMMENT_BODY

\* a GitLab call that was not made, was rejected, or was fulfilled
NotCalled == [state |-> "not called", id |-> FALSE, body |-> Undefined]

Rejected == [state |-> "rejected", id |-> FALSE, body |-> Undefined]

\* MergeRequestNotes.create / show fulfilled with a note; accept fulfilled
Note(hasId, body) == [state |-> "fulfilled", id |-> hasId, body |-> body]

Fulfilled == Note(FALSE, Undefined)

\* verifyCommentExists passes: the note has an id, the note fetched again
\* has a string body that, trimmed, includes the expected text
Verified_Unchecked(created, fetched, expectedBody) ==
    created.state = "fulfilled"

Verified(created, fetched, expectedBody) ==
    /\ created.state = "fulfilled"
    /\ created.id
    /\ fetched.state = "fulfilled"
    /\ Includes(IF fetched.body = Undefined THEN <<>> ELSE Trim(fetched.body),
                expectedBody)

\* processMergeRequest: the calls it issues, what they came to, and whether
\* it throws
processMergeRequest(hasIid, commentBody, dryRun, created, fetched, accepted) ==
    LET calls ==
            IF ~hasIid \/ dryRun THEN <<>>
            ELSE IF created.state = "rejected" \/ ~created.id
                 THEN <<"create">>
            ELSE IF ~Verified(created, fetched, commentBody)
                 THEN <<"create", "show">>
            ELSE <<"create", "show", "accept">>
    IN [calls |-> calls,
        created |-> IF Len(calls) >= 1 THEN created ELSE NotCalled,
        fetched |-> IF Len(calls) >= 2 THEN fetched ELSE NotCalled,
        accepted |-> IF Len(calls) >= 3 THEN accepted ELSE NotCalled,
        threw |-> /\ hasIid
                  /\ ~dryRun
                  /\ \/ ~Verified(created, fetched, commentBody)
                     \/ accepted.state = "rejected"]

\* the notes MergeRequestNotes.show can return for an expected body
FetchedNotes(expectedBody) ==
    {Note(TRUE, expectedBody),
     Note(TRUE, <<" ", ">">> \o expectedBody \o <<" ">>),
     Note(TRUE, <<"n", "o">>),
     Note(TRUE, Undefined)}

\* a merge request of a listing, for list: its iid and its title
Listed_MR(iid, title) == [iid |-> iid, title |-> title]

ListedShapes ==
    <<Listed_MR(1, <<"a">>), Listed_MR(2, <<"B">>), Listed_MR(3, <<"b", "A">>)>>

MaxListed == 2

ListedLists(n) == Sublists(ListedShapes, n)

\* applyMatchFilter: items whose lowered title includes the trimmed, lowered
\* needle; every item when there is no needle
RECURSIVE applyMatchFilter(_, _)
applyMatchFilter(list, match) ==
    IF match = Undefined \/ Trim(match) = <<>> THEN list
    ELSE IF list = <<>> THEN <<>>
    ELSE IF Includes(Lowered(Head(list).title), Lowered(Trim(match)))
         THEN <<Head(list)>> \o applyMatchFilter(Tail(list), match)
         ELSE applyMatchFilter(Tail(list), match)

\* parseLimitOption: undefined for no value, an Error unless positive
parseLimitOption(value) ==
    IF value = Undefined \/ value = <<>> THEN Parsed(0)
    ELSE IF parseInt(value) = NaN \/ parseInt(value) <= 0 THEN Invalid
    ELSE Parsed(parseInt(value))

\* typeof limit === 'number' ? filtered.slice(0, limit) : filtered
Subset(list, match, limit) ==
    LET filtered == applyMatchFilter(list, match)
    IN IF limit = Undefined \/ limit = <<>> THEN filtered
       ELSE SubSeq(filtered, 1, Min(parseInt(limit), Len(filtered)))

\* the entry of one profile in the results of list --json
JsonEntry(name, projectRef, list, match, limit) ==
    [profile |-> IF name = Undefined THEN DefaultProfile ELSE name,
     projectRef |-> projectRef,
     mergeRequests |-> Subset(list, match, limit),
     total |-> Len(applyMatchFilter(list, match)),
     limited |-> Len(Subset(list, match, limit))]

\* the value printed: one profile's merge requests, or every entry
Printed(results) ==
    IF Len(results) = 1
    THEN [printed |-> TRUE, single |-> TRUE,
          list |-> results[1].mergeRequests]
    ELSE [printed |-> TRUE, single |-> FALSE, list |-> results]

NotPrinted == [printed |-> FALSE, single |-> FALSE, list |-> <<>>]

\* a MergeRequests.all call of list --json: pending, or settled as the
\* order-th of the calls with the list it returned
Fetch(state, list, order) == [state |-> state, list |-> list, order |-> order]

Settled(calls) == Cardinality({j \in DOMAIN calls : calls[j].state # "pending"})

\* the array Promise.all resolves to: the entry of each sdk at the index
\* of the sdk
ResultsOf_ByCompletion(clients, calls, match, limit) ==
    [k \in 1..Len(clients) |->
        LET j == CHOOSE j \in 1..Len(clients) : calls[j].order = k
        IN JsonEntry(clients[j].name, clients[j].projectRef, calls[j].list, match,
                     limit)]

ResultsOf(clients, calls, match, limit) ==
    [j \in 1..Len(clients) |->
        JsonEntry(clients[j].name, clients[j].projectRef, calls[j].list, match,
                  limit)]

Commands == {"comment", "merge", "list", "review-assigned"}

IidValues ==
    {<<"1", "2">>, <<" ", "!", "7">>, <<"!">>, <<"0">>, <<"a", "1">>,
     <<"3", "x">>}

StateValues == {Undefined, <<"A", "l", "l">>, <<"b", "o", "g", "u", "s">>}

LimitValues == {Undefined, <<"1">>, <<"0">>}

MatchValues == {Undefined, <<" ", "A">>}

CommentValues == {Undefined, <<" ", "k", " ">>}

CommandLine(mr, state, dryRun, json, limit, match, comment) ==
    [mr |-> mr, state |-> state, dryRun |-> dryRun, json |-> json,
     limit |-> limit, match |-> match, comment |-> comment]

\* the command lines of each command
OptionsOf(cmd) ==
    CASE cmd \in {"comment", "merge"} ->
            {CommandLine(mr, Undefined, dryRun, FALSE, Undefined, Undefined,
                        Undefined) :
                mr \in IidValues, dryRun \in BOOLEAN}
      [] cmd = "list" ->
            {CommandLine(Undefined, state, FALSE, flags[1], flags[2],
                        flags[3], Undefined) :
                state \in StateValues,
                flags \in BOOLEAN \X LimitValues \X MatchValues}
      [] cmd = "review-assigned" ->
            {CommandLine(Undefined, state, dryRun, FALSE, Undefined,
                        Undefined, comment) :
                state \in StateValues, dryRun \in BOOLEAN,
                comment \in CommentValues}

\* what createGitlabSdksForProfiles returns: name and projectRef
Sdk(name, projectRef) == [name |-> name, projectRef |-> projectRef]

ResolvedSdks ==
    <<Sdk(Undefined, <<"1">>), Sdk(<<"a">>, <<"2">>), Sdk(<<"b">>, <<"3">>),
      Sdk(<<"c">>, <<"4">>)>>

MaxAssigned == 2

\* what a step did: for an item of review-assigned the calls issued and
\* what they came to
CmdEvent(step, processed) ==
    [step |-> step, calls |-> processed.calls, created |-> processed.created,
     fetched |-> processed.fetched, accepted |-> processed.accepted,
     threw |-> processed.threw]

NothingProcessed ==
    [calls |-> <<>>, created |-> NotCalled, fetched |-> NotCalled,
     accepted |-> NotCalled, threw |-> FALSE]

InitCommands ==
    /\ command \in Commands
    /\ cliOptions \in OptionsOf(command)
    /\ \E n \in 1..MaxProfiles : cmdSdks = SubSeq(ResolvedSdks, 1, n)
    /\ cmdAt = "start"
    /\ profileAt = 0
    /\ itemAt = 0
    /\ assigned = 0
    /\ networkUsed = FALSE
    /\ cmdStatus = "running"
    /\ failure = "none"
    /\ hadFailures = FALSE
    /\ hadFailuresOverall = FALSE
    /\ fetches = <<>>
    /\ payload = NotPrinted
    /\ anyFailed = FALSE
    /\ cmdEvent = CmdEvent("none", NothingProcessed)
    /\ CommandsAlone

cmdArgs == <<command, cliOptions, cmdSdks>>

\* the action returns, or throws and handleCliError sets process.exitCode
Ended(status, kind) ==
    /\ cmdAt' = "done"
    /\ cmdStatus' = status
    /\ failure' = kind

Continue(at) ==
    /\ cmdAt' = at
    /\ UNCHANGED <<cmdStatus, failure>>

\* the loop over sdks moves on; after the last profile the action ends, and
\* review-assigned throws when a merge request failed
NextProfile(failedOverall) ==
    /\ profileAt' = profileAt + 1
    /\ IF profileAt < Len(cmdSdks) THEN Continue("profile")
       ELSE IF failedOverall THEN Ended("failed", "aggregate")
       ELSE Ended("ok", "none")

\* the statements of an action before its first GitLab call
StartCommand ==
    /\ cmdAt = "start"
    /\ cmdEvent' = CmdEvent("start", NothingProcessed)
    /\ UNCHANGED <<cmdArgs, itemAt, assigned, hadFailures, hadFailuresOverall,
                   payload, anyFailed, outsideCommands>>
    /\ CASE command \in {"comment", "merge"} ->
              /\ IF parseMergeRequestIid(cliOptions.mr).threw
                 THEN Ended("failed", "validation") /\ UNCHANGED profileAt
                 ELSE Continue("profile") /\ profileAt' = 1
              /\ UNCHANGED <<networkUsed, fetches>>
         [] command = "review-assigned" ->
              /\ Continue("profile")
              /\ profileAt' = 1
              /\ UNCHANGED <<networkUsed, fetches>>
         [] command = "list" ->
              IF parseLimitOption(cliOptions.limit).threw
              THEN /\ Ended("failed", "validation")
                   /\ UNCHANGED <<profileAt, networkUsed, fetches>>
              ELSE IF ~cliOptions.json
              THEN /\ Continue("profile")
                   /\ profileAt' = 1
                   /\ UNCHANGED <<networkUsed, fetches>>
              ELSE IF normalizeStateOption(cliOptions.state).threw
              THEN /\ Ended("failed", "validation")
                   /\ UNCHANGED <<profileAt, networkUsed, fetches>>
              ELSE /\ Continue("fetching")
                   /\ networkUsed' = TRUE
                   /\ fetches' = [i \in 1..Len(cmdSdks) |->
                                     Fetch("pending", <<>>, 0)]
                   /\ UNCHANGED profileAt

WorkflowCalls_IgnoresDryRun(dryRun, write) ==
    <<write>>

\* the calls of one profile of runCommentWorkflow or runMergeWorkflow:
\* if (options.dryRun) { logger.info(...); continue }, else the write
WorkflowCalls(dryRun, write) ==
    IF dryRun THEN <<>> ELSE <<write>>

\* one profile of runCommentWorkflow or runMergeWorkflow: a dry run logs,
\* otherwise the call is made and a rejection leaves the loop
WorkflowProfile(write) ==
    /\ cmdAt = "profile"
    /\ cmdEvent' = CmdEvent("profile",
                            [NothingProcessed EXCEPT
                                !.calls = WorkflowCalls(cliOptions.dryRun, write)])
    /\ UNCHANGED <<cmdArgs, itemAt, assigned, hadFailures, hadFailuresOverall,
                   fetches, payload, outsideCommands>>
    /\ IF cliOptions.dryRun
       THEN NextProfile(FALSE) /\ UNCHANGED <<networkUsed, anyFailed>>
       ELSE /\ networkUsed' = TRUE
            /\ \/ NextProfile(FALSE) /\ UNCHANGED anyFailed
               \/ /\ Ended("failed", "gitlab")
                  /\ anyFailed' = TRUE
                  /\ UNCHANGED profileAt

\* MergeRequestNotes.create for a profile of comment
CommentProfile ==
    /\ command = "comment"
    /\ WorkflowProfile("create")

\* MergeRequests.accept for a profile of merge
MergeProfile ==
    /\ command = "merge"
    /\ WorkflowProfile("accept")

\* one profile of list without --json: buildListFetchOptions, then
\* MergeRequests.all
ListProfile ==
    /\ command = "list"
    /\ cmdAt = "profile"
    /\ cmdEvent' = CmdEvent("profile", NothingProcessed)
    /\ UNCHANGED <<cmdArgs, itemAt, assigned, hadFailures, hadFailuresOverall,
                   fetches, payload, outsideCommands>>
    /\ IF normalizeStateOption(cliOptions.state).threw
       THEN /\ Ended("failed", "validation")
            /\ UNCHANGED <<profileAt, networkUsed, anyFailed>>
       ELSE /\ networkUsed' = TRUE
            /\ \/ NextProfile(FALSE) /\ UNCHANGED anyFailed
               \/ /\ Ended("failed", "gitlab")
                  /\ anyFailed' = TRUE
                  /\ UNCHANGED profileAt

\* list --json: one of the concurrent MergeRequests.all calls settles; a
\* rejection rejects Promise.all, the last fulfilment prints the payload
ListFetchSettled ==
    /\ command = "list"
    /\ cmdAt = "fetching"
    /\ cmdEvent' = CmdEvent("fetch", NothingProcessed)
    /\ UNCHANGED <<cmdArgs, profileAt, itemAt, assigned, networkUsed,
                   hadFailures, hadFailuresOverall, outsideCommands>>
    /\ \E i \in 1..Len(cmdSdks) :
          /\ fetches[i].state = "pending"
          /\ \/ /\ fetches' = [fetches EXCEPT
                                  ![i] = Fetch("rejected", <<>>,
                                               Settled(fetches) + 1)]
                /\ Ended("failed", "gitlab")
                /\ anyFailed' = TRUE
                /\ UNCHANGED payload
             \/ \E list \in ListedLists(MaxListed) :
                  /\ fetches' = [fetches EXCEPT
                                    ![i] = Fetch("fulfilled", list,
                                                 Settled(fetches) + 1)]
                  /\ UNCHANGED anyFailed
                  /\ IF \E j \in 1..Len(cmdSdks) : fetches'[j].state = "pending"
                     THEN Continue("fetching") /\ UNCHANGED payload
                     ELSE /\ Ended("ok", "none")
                          /\ payload' =
                                 Printed(ResultsOf(cmdSdks, fetches',
                                                   cliOptions.match,
                                                   cliOptions.limit))

\* one profile of review-assigned up to its first merge request:
\* Users.showCurrentUser, buildListFetchOptions, MergeRequests.all, and the
\* number of merge requests assigned to the user
ReviewProfile ==
    /\ command = "review-assigned"
    /\ cmdAt = "profile"
    /\ cmdEvent' = CmdEvent("profile", NothingProcessed)
    /\ networkUsed' = TRUE
    /\ UNCHANGED <<cmdArgs, hadFailuresOverall, fetches, payload,
                   outsideCommands>>
    /\ \/ \* showCurrentUser or MergeRequests.all is rejected
          /\ Ended("failed", "gitlab")
          /\ anyFailed' = TRUE
          /\ UNCHANGED <<profileAt, itemAt, assigned, hadFailures>>
       \/ IF normalizeStateOption(cliOptions.state).threw
          THEN /\ Ended("failed", "validation")
               /\ UNCHANGED <<profileAt, itemAt, assigned, hadFailures,
                              anyFailed>>
          ELSE \E found \in 0..MaxAssigned :
                  /\ UNCHANGED anyFailed
                  /\ IF found = 0
                     THEN /\ NextProfile(hadFailuresOverall)
                          /\ UNCHANGED <<itemAt, assigned, hadFailures>>
                     ELSE /\ Continue("item")
                          /\ itemAt' = 1
                          /\ assigned' = found
                          /\ hadFailures' = FALSE
                          /\ UNCHANGED profileAt

\* one assigned merge request: processMergeRequest inside try/catch
ReviewItem ==
    /\ command = "review-assigned"
    /\ cmdAt = "item"
    /\ UNCHANGED <<cmdArgs, assigned, networkUsed, fetches, payload,
                   outsideCommands>>
    /\ \E hasIid \in BOOLEAN,
          created \in {Rejected, Note(TRUE, Undefined), Note(FALSE, Undefined)},
          fetched \in {Rejected}
                      \cup FetchedNotes(normalizeCommentBody(cliOptions.comment)),
          accepted \in {Rejected, Fulfilled} :
          LET processed ==
                  processMergeRequest(hasIid,
                                      normalizeCommentBody(cliOptions.comment),
                                      cliOptions.dryRun, created, fetched,
                                      accepted)
          IN /\ cmdEvent' = CmdEvent("item", processed)
             /\ hadFailures' = (hadFailures \/ processed.threw)
             /\ hadFailuresOverall' = (hadFailuresOverall \/ processed.threw)
             /\ anyFailed' = (anyFailed \/ processed.threw)
             /\ IF itemAt < assigned
                THEN /\ itemAt' = itemAt + 1
                     /\ Continue("item")
                     /\ UNCHANGED profileAt
                ELSE /\ itemAt' = itemAt
                     /\ NextProfile(hadFailuresOverall \/ processed.threw)

NextCommands ==
    \/ StartCommand
    \/ CommentProfile
    \/ MergeProfile
    \/ ListProfile
    \/ ListFetchSettled
    \/ ReviewProfile
    \/ ReviewItem

SpecCommands == InitCommands /\ [][NextCommands]_vars

\* ---- review-assigned: failures of profiles and of items ----

\* the loop over the profiles has reached every profile: the calls of the
\* last one were issued
EveryProfileAttempted == profileAt >= Len(cmdSdks)

\* C27: in review-assigned, once the command has ended for another reason
\* than an invalid option, every profile has been attempted, and the command
\* has failed exactly when an item or a profile's GitLab call failed.
C27_FailsOnlyAfterAllAttempted ==
    /\ command = "review-assigned"
    /\ cmdAt = "done"
    /\ failure # "validation"
    => /\ EveryProfileAttempted
       /\ (cmdStatus = "failed") <=> anyFailed

\* the part that holds: a failed item never stops the items and profiles
\* after it, and the command fails at the end
C27_ItemFailuresAreIsolated ==
    /\ command = "review-assigned"
    /\ cmdAt = "done"
    /\ failure = "aggregate"
    => /\ profileAt > Len(cmdSdks)
       /\ itemAt = assigned
       /\ anyFailed

C27_WitnessItems ==
    /\ command = "review-assigned"
    /\ cmdAt = "done"
    /\ failure = "aggregate"
    /\ Len(cmdSdks) > 1
    /\ ~hadFailures

\* ---- review-assigned: comment, verification, merge ----

Issued(call, event) == \E k \in DOMAIN event.calls : event.calls[k] = call

\* the comment was created and, fetched again, holds the expected text
CommentVerified(event, expectedBody) ==
    /\ event.created.state = "fulfilled"
    /\ event.created.id
    /\ event.fetched.state = "fulfilled"
    /\ event.fetched.body # Undefined
    /\ Includes(Trim(event.fetched.body), expectedBody)

\* C28: for each merge request of review-assigned, accept is issued only
\* after create and show, with the comment verified; when the comment was
\* created but creation gave no id or the verification failed, the item is
\* counted as failed and accept is not issued.
C28_MergeOnlyAfterVerifiedComment ==
    [][cmdEvent'.step = "item" =>
          LET expected == normalizeCommentBody(cliOptions.comment)
          IN /\ Issued("accept", cmdEvent') =>
                   /\ cmdEvent'.calls = <<"create", "show", "accept">>
                   /\ CommentVerified(cmdEvent', expected)
             /\ /\ Issued("create", cmdEvent')
                /\ ~CommentVerified(cmdEvent', expected)
                => /\ ~Issued("accept", cmdEvent')
                   /\ cmdEvent'.threw
                   /\ hadFailures'
                   /\ hadFailuresOverall']_vars

\* the write call returned success, the note fetched again does not hold
\* the text: the item failed and was not merged
C28_Witness ==
    /\ cmdEvent.step = "item"
    /\ cmdEvent.created = Note(TRUE, Undefined)
    /\ cmdEvent.fetched.state = "fulfilled"
    /\ cmdEvent.calls = <<"create", "show">>
    /\ cmdEvent.threw
    /\ hadFailuresOverall

C28_WitnessMerged ==
    /\ cmdEvent.step = "item"
    /\ Issued("accept", cmdEvent)
    /\ cmdEvent.accepted.state = "fulfilled"
    /\ ~cmdEvent.threw

\* ---- validation before the network ----

\* C29: a command that failed on an invalid merge-request identifier or an
\* invalid --state value has made no call to GitLab.
C29_ValidationBeforeNetwork ==
    failure = "validation" => ~networkUsed

\* the part that holds: comment, merge and list
C29_FailFastElsewhere ==
    /\ failure = "validation"
    /\ command # "review-assigned"
    => ~networkUsed

C29_WitnessElsewhere ==
    /\ failure = "validation"
    /\ command = "list"
    /\ cliOptions.json
    /\ Len(cmdSdks) > 1

\* ---- list --json ----

\* what is printed for the sdk at index j
PrintedFor(j) ==
    Subset(fetches[j].list, cliOptions.match, cliOptions.limit)

\* C30: list --json that succeeded has printed, for one profile, the array
\* of its merge requests, and for several one entry per profile at the
\* index of the profile, whatever the order the fetches settled in.
C30_JsonPayloadInProfileOrder ==
    /\ command = "list"
    /\ cliOptions.json
    /\ cmdStatus = "ok"
    => /\ payload.printed
       /\ IF Len(cmdSdks) = 1
          THEN /\ payload.single
               /\ payload.list = PrintedFor(1)
          ELSE /\ ~payload.single
               /\ Len(payload.list) = Len(cmdSdks)
               /\ \A j \in 1..Len(cmdSdks) :
                     /\ payload.list[j].profile =
                            (IF cmdSdks[j].name = Undefined
                             THEN DefaultProfile ELSE cmdSdks[j].name)
                     /\ payload.list[j].projectRef = cmdSdks[j].projectRef
                     /\ payload.list[j].mergeRequests = PrintedFor(j)

\* the fetch of the first profile settled last, and the profiles hold
\* different merge requests
C30_Witness ==
    /\ command = "list"
    /\ cliOptions.json
    /\ cmdStatus = "ok"
    /\ Len(cmdSdks) > 1
    /\ fetches[1].order = Len(cmdSdks)
    /\ PrintedFor(1) # PrintedFor(2)
    /\ PrintedFor(1) # <<>>

C30_WitnessSingle ==
    /\ command = "list"
    /\ cliOptions.json
    /\ cmdStatus = "ok"
    /\ Len(cmdSdks) = 1
    /\ payload.list # <<>>

----------------------------------------------------------------------------
(* profile use, profile set-base-url and maybeBootstrapGlobalConfig on the
   global config file *)

\* the keys of profiles that occur
ConfigKeys == {DefaultProfile, <<"w">>}

\* an entry of profiles: absent, or an object with baseUrl and token
ProfileEntry(present, baseUrl, token) ==
    [present |-> present, baseUrl |-> baseUrl, token |-> token]

AbsentEntry == ProfileEntry(FALSE, Undefined, Undefined)

\* the file: missing, not JSON of an object, or an object with these keys
ConfigFile(kind, token, baseUrl, defaultProfile, projectId, entries) ==
    [kind |-> kind, token |-> token, baseUrl |-> baseUrl,
     defaultProfile |-> defaultProfile, projectId |-> projectId,
     profiles |-> entries]

EmptyObject ==
    ConfigFile("object", Undefined, Undefined, Undefined, Undefined,
               [k \in ConfigKeys |-> AbsentEntry])

MissingFile == [EmptyObject EXCEPT !.kind = "missing"]

UnparsableFile == [EmptyObject EXCEPT !.kind = "unparsable"]

\* readGlobalConfig, readGlobalConfigOnly: {} unless the file holds an object
readGlobalConfig(file) ==
    IF file.kind = "object" THEN file ELSE EmptyObject

\* a string that is not undefined and not empty
TruthyString(value) == value # Undefined /\ value # <<>>

\* { ...(writable.profiles[targetProfile] || {}), baseUrl: url }
withBaseUrl_Replaces(entry, url) == ProfileEntry(TRUE, url, Undefined)

withBaseUrl(entry, url) == ProfileEntry(TRUE, url, entry.token)

\* the object profile set-base-url writes
setBaseUrl(writable, targetProfile, url) ==
    IF TruthyString(targetProfile)
    THEN [writable EXCEPT
             !.profiles[targetProfile] =
                 withBaseUrl(writable.profiles[targetProfile], url)]
    ELSE [writable EXCEPT !.baseUrl = url]

\* the object profile use writes
useProfile(writable, selectedProfile, baseUrl) ==
    [writable EXCEPT
        !.defaultProfile =
            IF TruthyString(selectedProfile) THEN selectedProfile
            ELSE Undefined,
        !.baseUrl = baseUrl]

\* the payload of the bootstrap
BootstrapPayload(token, baseUrl) ==
    ConfigFile("object", token, baseUrl, DefaultProfile, Undefined,
               [k \in ConfigKeys |->
                   IF k = DefaultProfile
                   THEN ProfileEntry(TRUE, baseUrl, token)
                   ELSE AbsentEntry])

\* isInteractive: Boolean(input.isTTY && !process.env.CI)
isInteractive(tty, ci) == tty /\ ~TruthyString(ci)

hasTopLevelToken(globalOnly) == TruthyString(globalOnly.token)

hasProfiles_Never(globalOnly) == FALSE

hasProfiles(globalOnly) == \E k \in ConfigKeys : globalOnly.profiles[k].present

ConfigTokens == {Undefined, <<>>, <<"t">>}

ConfigUrls == {Undefined, <<"u", "/">>}

ConfigEntries ==
    {AbsentEntry, ProfileEntry(TRUE, Undefined, <<"t">>),
     ProfileEntry(TRUE, <<"u">>, <<"t">>)}

ConfigFiles ==
    {MissingFile, UnparsableFile}
    \cup {ConfigFile("object", token, baseUrl, defaultProfile, projectId,
                     entries) :
             token \in ConfigTokens, baseUrl \in ConfigUrls,
             defaultProfile \in {Undefined, <<"w">>},
             projectId \in {Undefined, <<"1">>},
             entries \in [ConfigKeys -> ConfigEntries]}

\* --profile or the profile selected; --url, --base-url or the URL answered
ProfileArguments == {Undefined, DefaultProfile, <<"w">>}

UrlArguments == {Undefined, <<" ", "v", "/">>}

CiValues == {Undefined, <<>>, <<"1">>}

\* what the last step did: the command, its profile, whether it prompted in
\* the bootstrap and whether it wrote the file
CfgEvent(op, profile, url, prompted, wrote) ==
    [op |-> op, profile |-> profile, url |-> url, prompted |-> prompted,
     wrote |-> wrote]

InitConfig ==
    /\ globalConfig \in ConfigFiles
    /\ stdinTTY \in BOOLEAN
    /\ envCI \in CiValues
    /\ cfgEvent = CfgEvent("none", Undefined, Undefined, FALSE, FALSE)
    /\ ConfigAlone

\* profile use: the base URL is the option, the answer, the current one or
\* the default, trimmed; the file is read again and written
ProfileUse ==
    /\ \E selectedProfile \in ProfileArguments, given \in UrlArguments :
          LET baseUrl ==
                  trimBaseUrl(IF TruthyString(given) THEN given
                              ELSE IF TruthyString(
                                        readGlobalConfig(globalConfig).baseUrl)
                              THEN readGlobalConfig(globalConfig).baseUrl
                              ELSE DefaultBaseUrl)
          IN /\ globalConfig' = useProfile(readGlobalConfig(globalConfig),
                                           selectedProfile, baseUrl)
             /\ cfgEvent' = CfgEvent("use", selectedProfile, baseUrl, FALSE,
                                     TRUE)
    /\ UNCHANGED <<stdinTTY, envCI, outsideConfig>>

\* profile set-base-url: without a URL the command throws before it writes
ProfileSetBaseUrl ==
    /\ \E targetProfile \in ProfileArguments, given \in UrlArguments :
          IF ~TruthyString(given)
          THEN /\ cfgEvent' = CfgEvent("set-base-url", targetProfile,
                                       Undefined, FALSE, FALSE)
               /\ UNCHANGED globalConfig
          ELSE /\ globalConfig' = setBaseUrl(readGlobalConfig(globalConfig),
                                             targetProfile, trimBaseUrl(given))
               /\ cfgEvent' = CfgEvent("set-base-url", targetProfile,
                                       trimBaseUrl(given), FALSE, TRUE)
    /\ UNCHANGED <<stdinTTY, envCI, outsideConfig>>

\* maybeBootstrapGlobalConfig: returns when the file holds a token or a
\* profile, or the session is not interactive; else prompts, and writes
\* unless a prompt is interrupted
MaybeBootstrapGlobalConfig ==
    /\ IF \/ hasProfiles(readGlobalConfig(globalConfig))
          \/ hasTopLevelToken(readGlobalConfig(globalConfig))
          \/ ~isInteractive(stdinTTY, envCI)
       THEN /\ cfgEvent' = CfgEvent("bootstrap", Undefined, Undefined, FALSE,
                                    FALSE)
            /\ UNCHANGED globalConfig
       ELSE \/ /\ cfgEvent' = CfgEvent("bootstrap", Undefined, Undefined,
                                       TRUE, FALSE)
               /\ UNCHANGED globalConfig
            \/ \E answer \in {<<>>, <<" ", "u", "/">>} :
                  LET baseUrl == IF Trim(answer) = <<>> THEN DefaultBaseUrl
                                 ELSE Trim(answer)
                  IN /\ globalConfig' = BootstrapPayload(<<"t">>, baseUrl)
                     /\ cfgEvent' = CfgEvent("bootstrap", Undefined, baseUrl,
                                             TRUE, TRUE)
    /\ UNCHANGED <<stdinTTY, envCI, outsideConfig>>

NextConfig ==
    \/ ProfileUse
    \/ ProfileSetBaseUrl
    \/ MaybeBootstrapGlobalConfig

SpecConfig == InitConfig /\ [][NextConfig]_vars

\* ---- writes to the global config ----

\* the top-level keys and the entries of profiles that a write left as they
\* were in the file it read
SameTopLevel(before, after, keys) ==
    /\ "token" \in keys => after.token = before.token
    /\ "baseUrl" \in keys => after.baseUrl = before.baseUrl
    /\ "defaultProfile" \in keys => after.defaultProfile = before.defaultProfile
    /\ "projectId" \in keys => after.projectId = before.projectId

SameProfiles(before, after, keys) ==
    \A k \in keys : after.profiles[k] = before.profiles[k]

\* C31: a write of profile set-base-url --profile P changes profiles[P].baseUrl
\* only, without a profile the top-level baseUrl only; a write of profile use
\* changes defaultProfile and the top-level baseUrl only.
C31_WritesReplaceOnlyUpdatedKeys ==
    [][cfgEvent'.wrote /\ cfgEvent'.op \in {"use", "set-base-url"} =>
          LET before == readGlobalConfig(globalConfig)
              after == globalConfig'
              target == cfgEvent'.profile
          IN IF cfgEvent'.op = "use"
             THEN /\ SameTopLevel(before, after, {"token", "projectId"})
                  /\ SameProfiles(before, after, ConfigKeys)
                  /\ after.baseUrl = cfgEvent'.url
                  /\ after.defaultProfile = target
             ELSE IF target = Undefined
             THEN /\ SameTopLevel(before, after,
                                  {"token", "defaultProfile", "projectId"})
                  /\ SameProfiles(before, after, ConfigKeys)
                  /\ after.baseUrl = cfgEvent'.url
             ELSE /\ SameTopLevel(before, after,
                                  {"token", "baseUrl", "defaultProfile",
                                   "projectId"})
                  /\ SameProfiles(before, after, ConfigKeys \ {target})
                  /\ after.profiles[target].token = before.profiles[target].token
                  /\ after.profiles[target].baseUrl = cfgEvent'.url]_vars

\* set-base-url for a profile that holds a token, beside another profile and
\* other top-level keys
C31_Witness ==
    /\ cfgEvent.op = "set-base-url"
    /\ cfgEvent.wrote
    /\ cfgEvent.profile = <<"w">>
    /\ globalConfig.profiles[<<"w">>].token = <<"t">>
    /\ globalConfig.profiles[<<"w">>].baseUrl = cfgEvent.url
    /\ globalConfig.profiles[DefaultProfile].present
    /\ globalConfig.projectId # Undefined
    /\ globalConfig.token # Undefined

C31_WitnessUse ==
    /\ cfgEvent.op = "use"
    /\ cfgEvent.profile = Undefined
    /\ globalConfig.defaultProfile = Undefined
    /\ globalConfig.profiles[<<"w">>].present
    /\ globalConfig.projectId # Undefined

\* ---- bootstrap ----

\* C34: the bootstrap prompts only when the file holds neither a top-level
\* token nor a profile and stdin is a TTY and CI is unset or empty; it
\* writes only after prompting, and otherwise leaves the file as it is.
C34_BootstrapOnlyWhenEmptyAndInteractive ==
    [][cfgEvent'.op = "bootstrap" =>
          LET globalOnly == readGlobalConfig(globalConfig)
          IN /\ cfgEvent'.prompted =>
                   /\ ~TruthyString(globalOnly.token)
                   /\ \A k \in ConfigKeys : ~globalOnly.profiles[k].present
                   /\ stdinTTY
                   /\ envCI \in {Undefined, <<>>}
             /\ cfgEvent'.wrote => cfgEvent'.prompted
             /\ ~cfgEvent'.wrote => globalConfig' = globalConfig]_vars

\* C34 as stated: the bootstrap prompts only when the file holds neither a
\* top-level token nor a profile and stdin is a TTY and CI is not set; it
\* writes only after prompting, and otherwise leaves the file as it is.
C34_PromptsOnlyWhenCiNotSet ==
    [][cfgEvent'.op = "bootstrap" =>
          LET globalOnly == readGlobalConfig(globalConfig)
          IN /\ cfgEvent'.prompted =>
                   /\ ~TruthyString(globalOnly.token)
                   /\ \A k \in ConfigKeys : ~globalOnly.profiles[k].present
                   /\ stdinTTY
                   /\ envCI = Undefined
             /\ cfgEvent'.wrote => cfgEvent'.prompted
             /\ ~cfgEvent'.wrote => globalConfig' = globalConfig]_vars

\* the bootstrap wrote its payload over a file without token and profiles
C34_Witness ==
    /\ cfgEvent.op = "bootstrap"
    /\ cfgEvent.wrote
    /\ globalConfig.token = <<"t">>
    /\ globalConfig.profiles[DefaultProfile].present

\* the bootstrap left a file with a profile as it was, on a TTY without CI
C34_WitnessKept ==
    /\ cfgEvent.op = "bootstrap"
    /\ ~cfgEvent.prompted
    /\ stdinTTY
    /\ envCI = Undefined
    /\ globalConfig.token = Undefined
    /\ globalConfig.profiles[<<"w">>].present

\* C32: over any sequence of key events the selector never moves the cursor
\* above, nor clears, the rows that precede the row where its first frame
\* began: every frame, and the clearing of cleanup(), begins at that row or
\* below it
C32_NeverAboveFirstFrame == frameTop >= 0

\* C36: once the paged selector has resolved its result (after cleanup() and
\* resolve() of finish) it writes nothing more to the terminal: no later
\* step, of a favorite-toggle callback that settles afterwards included,
\* renders a frame or logs a warning
C36_SilentAfterResolved ==
    [][(cleaned /\ promise.state = "fulfilled")
          => (lastEvent'.frames = 0 /\ lastEvent'.warnings = 0)]_vars

\* ---- runPromptWithEsc ----

MaxKeypresses == 2

MaxPromptRuns == 2

\* the listeners attached to the stream's keypress event before the call
ListenersBefore == {<<>>, <<"other">>}

Stream(isTTYNow, isRawNow, listeners) ==
    [isTTY |-> isTTYNow, isRaw |-> isRawNow, listeners |-> listeners]

\* a stream that is not a TTY has no setRawMode and its isRaw is undefined
Streams ==
    {Stream(tty, raw, ls) : tty \in BOOLEAN, raw \in BOOLEAN, ls \in ListenersBefore}
    \ {Stream(FALSE, TRUE, ls) : ls \in ListenersBefore}

\* stdin.setRawMode?.(mode)
setRawMode(stream, mode) ==
    IF stream.isTTY THEN [stream EXCEPT !.isRaw = mode] ELSE stream

\* stdin.on('keypress', listener)
on(stream, listener) ==
    [stream EXCEPT !.listeners = Append(@, listener)]

\* stdin.off('keypress', listener): removes the most recently added instance
off(stream, listener) ==
    LET ls == stream.listeners
        at == {i \in 1..Len(ls) : ls[i] = listener}
    IN IF at = {}
       THEN stream
       ELSE LET last == CHOOSE i \in at : \A k \in at : k <= i
            IN [stream EXCEPT !.listeners =
                   SubSeq(ls, 1, last - 1) \o SubSeq(ls, last + 1, Len(ls))]

\* the lines before the try: the listener is added and raw mode switched on
\* unless it was on
Installed(stream) ==
    LET listened == on(stream, "onKeypress")
    IN IF ~stream.isRaw THEN setRawMode(listened, TRUE) ELSE listened

Finally_LeavesRawMode(stream, wasRawBefore) ==
    off(stream, "onKeypress")

\* the finally block
Finally(stream, wasRawBefore) ==
    LET unlistened == off(stream, "onKeypress")
    IN IF ~wasRawBefore THEN setRawMode(unlistened, FALSE) ELSE unlistened

PromptRun(at, wasRawBefore, before, runs) ==
    [at |-> at, wasRaw |-> wasRawBefore, before |-> before, runs |-> runs]

Exits == {"returned", "cancelled", "threw"}

InitPrompt ==
    /\ stdin \in Streams
    /\ controller = [aborted |-> FALSE]
    /\ promptRun = PromptRun("not called", FALSE, stdin, 0)
    /\ keypresses = 0
    /\ PromptAlone

\* the call up to the await of fn
RunPromptWithEsc ==
    /\ promptRun.at # "awaiting"
    /\ promptRun.runs < MaxPromptRuns
    /\ controller' = [aborted |-> FALSE]
    /\ promptRun' = PromptRun("awaiting", stdin.isRaw, stdin, promptRun.runs + 1)
    /\ stdin' = Installed(stdin)
    /\ UNCHANGED <<keypresses, outsidePrompt>>

\* a key: onKeypress, when attached, aborts the controller on escape
Keypress(name) ==
    /\ keypresses < MaxKeypresses
    /\ keypresses' = keypresses + 1
    /\ controller' = IF name = "escape" /\ (\E i \in 1..Len(stdin.listeners) : stdin.listeners[i] = "onKeypress")
                     THEN [aborted |-> TRUE]
                     ELSE controller
    /\ UNCHANGED <<stdin, promptRun, outsidePrompt>>

KeypressEscape ==
    /\ Keypress("escape")

KeypressOther ==
    /\ Keypress("return")

\* fn resolves: { cancelled: false, value }, after the finally block
FnResolves ==
    /\ promptRun.at = "awaiting"
    /\ stdin' = Finally(stdin, promptRun.wasRaw)
    /\ promptRun' = [promptRun EXCEPT !.at = "returned"]
    /\ UNCHANGED <<controller, keypresses, outsidePrompt>>

\* fn rejects: { cancelled: true } when the signal is aborted, else the error
\* is thrown again; the finally block runs on both
FnRejects ==
    /\ promptRun.at = "awaiting"
    /\ stdin' = Finally(stdin, promptRun.wasRaw)
    /\ promptRun' = [promptRun EXCEPT
                        !.at = IF controller.aborted THEN "cancelled" ELSE "threw"]
    /\ UNCHANGED <<controller, keypresses, outsidePrompt>>

NextPrompt ==
    \/ RunPromptWithEsc
    \/ KeypressEscape
    \/ KeypressOther
    \/ FnResolves
    \/ FnRejects

SpecPrompt == InitPrompt /\ [][NextPrompt]_vars

\* C33: on every exit path of runPromptWithEsc (a value, a cancellation by
\* Escape through the abort signal, an unrelated error) the keypress
\* listeners of the input stream are those attached before the call and its
\* raw mode is the one it had before the call
C33_TerminalStateRestored ==
    promptRun.at \in Exits
        => /\ stdin.listeners = promptRun.before.listeners
           /\ stdin.isRaw = promptRun.before.isRaw

\* the prompt was cancelled by Escape on a TTY that was not in raw mode and
\* had another listener
C33_Witness ==
    /\ promptRun.at = "cancelled"
    /\ controller.aborted
    /\ stdin.isTTY
    /\ ~promptRun.before.isRaw
    /\ promptRun.before.listeners # <<>>

C33_WitnessThrew ==
    /\ promptRun.at = "threw"
    /\ stdin.isTTY
    /\ ~promptRun.before.isRaw

C33_WitnessReturned ==
    /\ promptRun.at = "returned"
    /\ stdin.isTTY
    /\ ~promptRun.before.isRaw

\* ---- --dry-run ----

\* C35: with --dry-run, no step of comment, merge or review-assigned, for
\* any profile and any merge request, issues MergeRequestNotes.create or
\* MergeRequests.accept
C35_DryRunWritesNothing ==
    /\ cliOptions.dryRun
    /\ command \in {"comment", "merge", "review-assigned"}
    => /\ ~Issued("create", cmdEvent)
       /\ ~Issued("accept", cmdEvent)

\* a dry run of review-assigned that went through the merge requests of
\* more than one profile
C35_Witness ==
    /\ cliOptions.dryRun
    /\ command = "review-assigned"
    /\ cmdEvent.step = "item"
    /\ cmdAt = "done"
    /\ Len(cmdSdks) > 1

C35_WitnessMerge ==
    /\ cliOptions.dryRun
    /\ command = "merge"
    /\ cmdEvent.step = "profile"
    /\ cmdAt = "done"
    /\ Len(cmdSdks) > 1

\* C38: when --profile is given, without --all-profiles and without a CLI
\* token or base URL, every profile returned by resolveGitlabProfiles
\* carries one of the requested names: a requested name that cannot be found
\* is never replaced by the unnamed top-level or legacy profile.
C38_OnlyRequestedNames ==
    /\ Resolved
    /\ result.status = "ok"
    /\ requestedProfilesFromFlag(options) # <<>>
    /\ ~options.allProfiles
    /\ ~ExplicitOverride(options)
    => \A i \in 1..Len(result.profiles) :
          \E k \in 1..Len(requestedProfilesFromFlag(options)) :
              requestedProfilesFromFlag(options)[k] = result.profiles[i].name

\* ---- toggleFavorite while a save is pending ----

\* the toggles of one session
MaxToggles == 3

\* the favorites the session starts from
StartingFavorites ==
    {<<>>,
     <<FavoriteRecord(<<"1">>, Undefined)>>,
     <<FavoriteRecord(<<"2">>, Undefined)>>,
     <<FavoriteRecord(<<"2">>, Undefined), FavoriteRecord(<<"1">>, Undefined)>>}

ListedProjects ==
    <<Choice(<<"1">>, Undefined, FALSE), Choice(<<"2">>, Undefined, FALSE)>>

Save(isFavorite, records) == [isFavorite |-> isFavorite, records |-> records]

SavesEnded(fulfilled, rejected, overlapped) ==
    [fulfilled |-> fulfilled, rejected |-> rejected, overlapped |-> overlapped]

Without(saves, k) == SubSeq(saves, 1, k - 1) \o SubSeq(saves, k + 1, Len(saves))

InitOverlap ==
    /\ heldRecords \in StartingFavorites
    /\ heldSet = KeysOf(heldRecords)
    /\ writtenFile = heldRecords
    /\ listedProjects = markFavoriteState(ListedProjects, KeysOf(heldRecords))
    /\ savesPending = <<>>
    /\ savesEnded = SavesEnded(0, 0, FALSE)
    /\ OverlapAlone

\* the f key on the first project of the list: toggleFavorite(choice) up
\* to the await of saveFavoriteProjects in persistFavorites, which has
\* assigned favoriteRecords and favoriteSet and marked the projects
ToggleBegins ==
    /\ Len(savesPending) + savesEnded.fulfilled + savesEnded.rejected < MaxToggles
    /\ LET choice == listedProjects[1]
           isFavorite == ChoiceKey(choice) \in heldSet
           records == toggledRecords(choice, heldRecords, heldSet)
       IN /\ heldRecords' = records
          /\ heldSet' = KeysOf(records)
          /\ listedProjects' = markFavoriteState(listedProjects, KeysOf(records))
          /\ savesPending' = Append(savesPending, Save(isFavorite, records))
    /\ savesEnded' = [savesEnded EXCEPT
                         !.overlapped = @ \/ savesPending # <<>>]
    /\ UNCHANGED <<writtenFile, outsideOverlap>>

\* writeFile of one of the saves under way has written the file; its toggle
\* goes on after the await: choice.isFavorite = !isFavorite
SaveFulfilled ==
    /\ \E k \in 1..Len(savesPending) :
          /\ writtenFile' = savesPending[k].records
          /\ listedProjects' =
                 [listedProjects EXCEPT
                     ![1].isFavorite = ~savesPending[k].isFavorite]
          /\ savesPending' = Without(savesPending, k)
    /\ savesEnded' = [savesEnded EXCEPT !.fulfilled = @ + 1]
    /\ UNCHANGED <<heldRecords, heldSet, outsideOverlap>>

\* one of the saves under way is rejected: its toggle throws at the await
SaveRejected ==
    /\ \E k \in 1..Len(savesPending) :
          savesPending' = Without(savesPending, k)
    /\ savesEnded' = [savesEnded EXCEPT !.rejected = @ + 1]
    /\ UNCHANGED <<heldRecords, heldSet, writtenFile, listedProjects,
                   outsideOverlap>>

NextOverlap ==
    \/ ToggleBegins
    \/ SaveFulfilled
    \/ SaveRejected

SpecOverlap == InitOverlap /\ [][NextOverlap]_vars

\* C37: when the toggle key was pressed again on the item while an earlier
\* save was pending and every save has ended and none failed, the item's
\* isFavorite flag, the favorite set in memory and the favorites file agree
\* on whether the item is a favorite, in whatever order the saves ended
C37_OverlappingTogglesAgree ==
    /\ savesEnded.overlapped
    /\ savesPending = <<>>
    /\ savesEnded.rejected = 0
    => LET key == ChoiceKey(listedProjects[1])
       IN /\ listedProjects[1].isFavorite <=> key \in heldSet
          /\ key \in heldSet <=> key \in KeysOf(loadFavoriteProjects(writtenFile))

\* ---- the profile store ----

\* the profile names told apart
MaxStored == 3

NamePool == <<<<"a">>, <<"7">>, <<"b">>, DefaultProfile>>

StoreNames == {NamePool[i] : i \in 1..Min(MaxStored, Len(NamePool))}

\* a key that is an array index: Object.keys and Object.entries list these
\* first, in ascending order, and the other keys after them in the order
\* they were added
IsIndexKey(key) ==
    /\ key # <<>>
    /\ \A i \in 1..Len(key) : key[i] \in Digits
    /\ Len(key) = 1 \/ key[1] # "0"

HasKey(keys, key) == \E i \in 1..Len(keys) : keys[i] = key

\* Object.keys(profiles) after profiles[key] = profile
KeysWith(keys, key) ==
    LET Lower(k) == IsIndexKey(k) /\ LeadingDigits(k, 0) < LeadingDigits(key, 0)
        NotLower(k) == ~Lower(k)
    IN IF HasKey(keys, key) THEN keys
       ELSE IF IsIndexKey(key)
            THEN SelectSeq(keys, Lower) \o <<key>> \o SelectSeq(keys, NotLower)
            ELSE Append(keys, key)

\* Object.keys(profiles) after delete profiles[key]
KeysWithout(keys, key) ==
    LET Other(k) == k # key
    IN SelectSeq(keys, Other)

\* the config object: whether it has a profiles object, the keys of it,
\* defaultProfile, and whether one of the top-level token, baseUrl, projectId
\* and projectPath is truthy
RawProfileStore(hasProfilesObject, keys, defaultProfile, topLevel) ==
    [hasProfiles |-> hasProfilesObject, keys |-> keys,
     defaultProfile |-> defaultProfile, topLevel |-> topLevel]

ProfileSummary(name, isDefault) == [name |-> name, isDefault |-> isDefault]

listProfiles(config) ==
    LET summaries == [i \in 1..Len(config.keys) |->
                         ProfileSummary(config.keys[i],
                                        config.defaultProfile = config.keys[i])]
        hasFallback == config.keys = <<>> /\ config.topLevel
    IN IF hasFallback
       THEN Append(summaries,
                   ProfileSummary(DefaultProfile,
                                  \/ config.defaultProfile = Undefined
                                  \/ config.defaultProfile = DefaultProfile))
       ELSE summaries

deleteProfile_KeepsDefault(config, name) ==
    IF ~config.hasProfiles THEN config
    ELSE [config EXCEPT !.keys = KeysWithout(config.keys, name)]

deleteProfile(config, name) ==
    IF ~config.hasProfiles THEN config
    ELSE LET remaining == KeysWithout(config.keys, name)
         IN [config EXCEPT
                !.keys = remaining,
                !.defaultProfile =
                    IF config.defaultProfile = name
                    THEN IF remaining = <<>> THEN Undefined ELSE remaining[1]
                    ELSE @]

upsertProfile(config, name) ==
    [config EXCEPT
        !.hasProfiles = TRUE,
        !.keys = KeysWith(config.keys, name),
        !.defaultProfile = IF @ = Undefined THEN name ELSE @]

setDefaultProfile(config, name) ==
    [config EXCEPT !.defaultProfile = IF name = Undefined \/ name = <<>>
                                      THEN Undefined ELSE name]

\* the orders Object.keys can give for profiles named from StoreNames
KeyOrders ==
    {keys \in UNION {[1..n -> StoreNames] : n \in 0..Cardinality(StoreNames)} :
        /\ \A i, j \in 1..Len(keys) : i # j => keys[i] # keys[j]
        /\ \A i, j \in 1..Len(keys) :
              /\ (i < j /\ IsIndexKey(keys[j])) => IsIndexKey(keys[i])
              /\ (i < j /\ IsIndexKey(keys[i]) /\ IsIndexKey(keys[j]))
                    => LeadingDigits(keys[i], 0) < LeadingDigits(keys[j], 0)}

\* every config object: defaultProfile may name no key
ProfileStores ==
    {RawProfileStore(has, keys, default, top) :
        has \in BOOLEAN, keys \in KeyOrders,
        default \in {Undefined} \cup StoreNames, top \in BOOLEAN}
    \ {RawProfileStore(FALSE, keys, default, top) :
        keys \in KeyOrders \ {<<>>},
        default \in {Undefined} \cup StoreNames, top \in BOOLEAN}

\* defaultProfile is unset or names an existing key
DefaultExists(config) ==
    config.defaultProfile = Undefined \/ HasKey(config.keys, config.defaultProfile)

StoreEvent(op, name, before) == [op |-> op, name |-> name, before |-> before]

InitStore ==
    /\ profileStore \in {config \in ProfileStores : DefaultExists(config)}
    /\ storeEvent = StoreEvent("none", Undefined, profileStore)
    /\ StoreAlone

UpsertProfile ==
    /\ \E name \in StoreNames :
          /\ profileStore' = upsertProfile(profileStore, name)
          /\ storeEvent' = StoreEvent("upsert", name, profileStore)
    /\ UNCHANGED outsideStore

DeleteProfile ==
    /\ \E name \in StoreNames :
          /\ profileStore' = deleteProfile(profileStore, name)
          /\ storeEvent' = StoreEvent("delete", name, profileStore)
    /\ UNCHANGED outsideStore

\* setDefaultProfile with the name of an existing profile
SetDefaultProfile ==
    /\ \E name \in StoreNames :
          /\ HasKey(profileStore.keys, name)
          /\ profileStore' = setDefaultProfile(profileStore, name)
          /\ storeEvent' = StoreEvent("set-default", name, profileStore)
    /\ UNCHANGED outsideStore

NextStore ==
    \/ UpsertProfile
    \/ DeleteProfile
    \/ SetDefaultProfile

SpecStore == InitStore /\ [][NextStore]_vars

\* C39: from a config whose defaultProfile is unset or names an existing
\* key, after any sequence of upsertProfile, deleteProfile and
\* setDefaultProfile with an existing name, defaultProfile is unset or names
\* an existing key; an upsert into a config without a default makes the new
\* profile the default; deleting the default profile makes the first of the
\* remaining keys the default, or leaves it unset when none remains
C39_DefaultProfileExists ==
    /\ DefaultExists(profileStore)
    /\ (storeEvent.op = "upsert" /\ storeEvent.before.defaultProfile = Undefined)
          => profileStore.defaultProfile = storeEvent.name
    /\ (storeEvent.op = "delete" /\ storeEvent.before.defaultProfile = storeEvent.name)
          => LET remaining == KeysWithout(storeEvent.before.keys, storeEvent.name)
             IN /\ profileStore.keys = remaining
                /\ profileStore.defaultProfile =
                       IF remaining = <<>> THEN Undefined ELSE remaining[1]

\* the default profile was deleted and others remain
C39_Witness ==
    /\ storeEvent.op = "delete"
    /\ storeEvent.before.defaultProfile = storeEvent.name
    /\ Len(storeEvent.before.keys) > 2
    /\ storeEvent.before.keys[1] # storeEvent.name

C39_WitnessUpsert ==
    /\ storeEvent.op = "upsert"
    /\ storeEvent.before.defaultProfile = Undefined
    /\ storeEvent.before.keys # <<>>

C39_WitnessLast ==
    /\ storeEvent.op = "delete"
    /\ storeEvent.before.defaultProfile = storeEvent.name
    /\ profileStore.keys = <<>>

\* ---- the profile manager of the interactive shell ----

Listed_Names(config) ==
    [i \in 1..Len(listProfiles(config)) |-> listProfiles(config)[i].name]

\* profileSummaries.find(p => p.isDefault)?.name ?? profileSummaries[0]?.name
DefaultOrFirst(config) ==
    LET summaries == listProfiles(config)
        defaults == {i \in 1..Len(summaries) : summaries[i].isDefault}
    IN IF defaults # {}
       THEN summaries[CHOOSE i \in defaults : \A k \in defaults : i <= k].name
       ELSE IF summaries # <<>> THEN summaries[1].name ELSE Undefined

refreshProfileState_KeepsActive(config, active) == active

\* refreshProfileState: an active name that no summary carries is replaced
refreshProfileState(config, active) ==
    IF active # Undefined /\ ~HasKey(Listed_Names(config), active)
    THEN DefaultOrFirst(config)
    ELSE active

ManagerEvent(op, name, activeBefore, after) ==
    [op |-> op, name |-> name, activeBefore |-> activeBefore, after |-> after]

InitManager ==
    /\ configFile \in ProfileStores
    /\ activeProfileName = DefaultOrFirst(configFile)
    /\ managerAt = "list mode"
    /\ managerEvent = ManagerEvent("none", Undefined, Undefined, "none")
    /\ ManagerAlone

\* mode === 'profiles': launchProfileManager
OpenManager ==
    /\ managerAt = "list mode"
    /\ managerAt' = "manager"
    /\ managerEvent' = ManagerEvent("open", Undefined, activeProfileName, "none")
    /\ UNCHANGED <<configFile, activeProfileName, outsideManager>>

\* add: the profile key answered, upsertProfile, saveProfileStore
ManagerAdd ==
    /\ managerAt = "manager"
    /\ \E name \in StoreNames :
          /\ configFile' = upsertProfile(configFile, name)
          /\ managerEvent' = ManagerEvent("add", name, activeProfileName, "none")
    /\ UNCHANGED <<activeProfileName, managerAt, outsideManager>>

\* switch: a summary selected becomes the active profile
ManagerSwitch ==
    /\ managerAt = "manager"
    /\ \E i \in 1..Len(listProfiles(configFile)) :
          LET selected == listProfiles(configFile)[i]
          IN /\ activeProfileName' = selected.name
             /\ managerEvent' = ManagerEvent("switch", selected.name,
                                             activeProfileName, "none")
    /\ UNCHANGED <<configFile, managerAt, outsideManager>>

\* set-default: setDefaultProfile with the name of the summary selected
ManagerSetDefault ==
    /\ managerAt = "manager"
    /\ \E i \in 1..Len(listProfiles(configFile)) :
          LET selected == listProfiles(configFile)[i]
          IN /\ configFile' = setDefaultProfile(configFile, selected.name)
             /\ managerEvent' = ManagerEvent("set-default", selected.name,
                                             activeProfileName, "none")
    /\ UNCHANGED <<activeProfileName, managerAt, outsideManager>>

\* remove, confirmed: deleteProfile, saveProfileStore, and the store's
\* defaultProfile becomes the active profile when the active one was removed
ManagerRemove ==
    /\ managerAt = "manager"
    /\ \E i \in 1..Len(listProfiles(configFile)) :
          LET selected == listProfiles(configFile)[i]
              store == deleteProfile(configFile, selected.name)
          IN /\ configFile' = store
             /\ activeProfileName' = IF activeProfileName = selected.name
                                     THEN store.defaultProfile
                                     ELSE activeProfileName
             /\ managerEvent' = ManagerEvent("remove", selected.name,
                                             activeProfileName, "none")
    /\ UNCHANGED <<managerAt, outsideManager>>

\* back or Escape: the manager returns, refreshProfileState runs and the
\* list-mode prompt is shown again
ManagerBack ==
    /\ managerAt = "manager"
    /\ managerAt' = "list mode"
    /\ activeProfileName' = refreshProfileState(configFile, activeProfileName)
    /\ managerEvent' = ManagerEvent("back", managerEvent.name,
                                    managerEvent.activeBefore, managerEvent.op)
    /\ UNCHANGED <<configFile, outsideManager>>

NextManager ==
    \/ OpenManager
    \/ ManagerAdd
    \/ ManagerSwitch
    \/ ManagerSetDefault
    \/ ManagerRemove
    \/ ManagerBack

SpecManager == InitManager /\ [][NextManager]_vars

\* the active profile was removed by the operation the event records
RemovedActive(event) ==
    /\ event.activeBefore # Undefined
    /\ event.name = event.activeBefore

\* C40: whenever the list-mode prompt is shown, at the start and after any
\* sequence of add, switch, set-default and remove in the profile manager,
\* the active profile name is unset or the name of a profile listed for the
\* store; when the active profile was removed, the active name is the
\* store's defaultProfile, and at the prompt it is that default, the first
\* listed profile, or unset
C40_ActiveProfileIsListed ==
    /\ managerAt = "list mode"
          => \/ activeProfileName = Undefined
             \/ HasKey(Listed_Names(configFile), activeProfileName)
    /\ (managerEvent.op = "remove" /\ RemovedActive(managerEvent))
          => activeProfileName = configFile.defaultProfile
    /\ (managerEvent.op = "back" /\ managerEvent.after = "remove"
           /\ RemovedActive(managerEvent))
          => \/ activeProfileName = configFile.defaultProfile
             \/ /\ listProfiles(configFile) # <<>>
                /\ activeProfileName = listProfiles(configFile)[1].name
             \/ activeProfileName = Undefined

\* back at the list-mode prompt after the active profile was removed while
\* the store's default named no profile: the first listed one is active
C40_Witness ==
    /\ managerAt = "list mode"
    /\ managerEvent.op = "back"
    /\ managerEvent.after = "remove"
    /\ RemovedActive(managerEvent)
    /\ configFile.defaultProfile # Undefined
    /\ ~HasKey(configFile.keys, configFile.defaultProfile)
    /\ configFile.keys # <<>>
    /\ activeProfileName = configFile.keys[1]

C40_WitnessUnset ==
    /\ managerAt = "list mode"
    /\ managerEvent.op = "back"
    /\ managerEvent.after = "remove"
    /\ RemovedActive(managerEvent)
    /\ activeProfileName = Undefined
    /\ listProfiles(configFile) # <<>>

====
